---- MODULE Spec2Model ----
(***************************************************************************)
(* Model of the ticket distribution engine FIRE_Engine_V10 (src/engine.py).*)
(*                                                                         *)
(* Text.  A string is a sequence of characters; a character is a triple    *)
(* <<script, letter, case>>.  Script "lat" holds the ASCII characters,     *)
(* case "u"/"l" marks a letter's case ("n": not a letter), script          *)
(* "cyr" the Cyrillic letters of the range a-ya, written with one ASCII    *)
(* letter each (a b v g d e j z i k l m n o p r s t u f h c w y x q stand  *)
(* for а б в г д е ж з и к л м н о п р с т у ф х ц ш ы ь я), script "ext"  *)
(* the Cyrillic letters outside that range (yo, and the Kazakh letters),   *)
(* script "cy2" the letters of the range a-ya that are left (j c w x e u   *)
(* stand for й ч щ ъ э ю).                                                 *)
(* An upper-case ASCII letter in any script is the upper-case form.        *)
(***************************************************************************)
EXTENDS Integers, Sequences, FiniteSets, TLC

\* ------------------------------------------------------------------ text

UpperLetters == "ABCDEFGHIJKLMNOPQRSTUVWXYZ"
LowerLetters == "abcdefghijklmnopqrstuvwxyz"
\* the Cyrillic letters in alphabet order, in the transliteration above
CyrOrder == "abvgdejziklmnoprstufhcwyxq"

\* the value of a one-element set: Only({e(x) : x \in {v}}) evaluates v once
Only(S) == CHOOSE v \in S : TRUE

\* position of the one-character text l in the text abc, 0 if absent
IndexIn(l, abc) ==
    IF \E k \in 1..Len(abc) : SubSeq(abc, k, k) = l
    THEN CHOOSE k \in 1..Len(abc) : SubSeq(abc, k, k) = l
    ELSE 0

\* a sequence given as a function, as an explicit tuple
Tup(f) == SubSeq(f, 1, Len(f))

\* A character is <<script, letter, case>>: a letter is kept in lower case
\* with case "u" (upper) or "l" (lower); any other character has case "n".
\* In a literal, letters take the script sc, other characters are ASCII.
MkChar(sc, l) ==
    IF IndexIn(l, UpperLetters) > 0
    THEN <<sc, SubSeq(LowerLetters, IndexIn(l, UpperLetters), IndexIn(l, UpperLetters)), "u">>
    ELSE IF IndexIn(l, LowerLetters) > 0 THEN <<sc, l, "l">>
    ELSE <<"lat", l, "n">>

Script(sc, s) == Tup([i \in 1..Len(s) |-> MkChar(sc, SubSeq(s, i, i))])
Lat(s) == Script("lat", s)
Cyr(s) == Script("cyr", s)
Ext(s) == Script("ext", s)
Cy2(s) == Script("cy2", s)

LowerChar(c) == IF c[3] = "u" THEN <<c[1], c[2], "l">> ELSE c
UpperChar(c) == IF c[3] = "l" THEN <<c[1], c[2], "u">> ELSE c

\* str.lower() / str.upper()
Lower(s) == Only({Tup([i \in 1..Len(t) |-> LowerChar(t[i])]) : t \in {s}})
Upper(s) == Only({Tup([i \in 1..Len(t) |-> UpperChar(t[i])]) : t \in {s}})

SPACE == <<"lat", " ", "n">>
\* the no-break space U+00A0, white space to str.strip()
NBSP == <<"lat", "nbsp", "n">>
IsSpace(c) == c \in {SPACE, NBSP}

\* `pat in s` of Python: pat occurs as a contiguous substring of s
Contains(pat, s) ==
    \E p \in {pat} : \E t \in {s} :
        \E i \in 0..(Len(t) - Len(p)) : SubSeq(t, i + 1, i + Len(p)) = p

\* str.strip()
Strip(s) ==
    Only({ LET keep == {i \in 1..Len(t) : ~ IsSpace(t[i])}
           IN  IF keep = {} THEN <<>>
               ELSE SubSeq(t, CHOOSE i \in keep : \A j \in keep : i <= j,
                              CHOOSE i \in keep : \A j \in keep : i >= j)
           : t \in {s} })

\* str.replace(old, new) for a non-empty old: leftmost, non-overlapping
RECURSIVE Replace(_, _, _)
Replace(s, old, new) ==
    Only({ IF Len(t) < Len(old) THEN t
           ELSE IF SubSeq(t, 1, Len(old)) = old
                THEN new \o Replace(SubSeq(t, Len(old) + 1, Len(t)), old, new)
                ELSE <<Head(t)>> \o Replace(Tail(t), old, new)
           : t \in {s} })

\* str.split(sep) for a one-character sep
RECURSIVE Split(_, _)
Split(s, sep) ==
    Only({ IF \E i \in 1..Len(t) : t[i] = sep
           THEN LET i == CHOOSE k \in 1..Len(t) :
                             t[k] = sep /\ \A j \in 1..(k - 1) : t[j] # sep
                IN  <<SubSeq(t, 1, i - 1)>> \o Split(SubSeq(t, i + 1, Len(t)), sep)
           ELSE <<t>>
           : t \in {s} })

\* str.capitalize(): first character upper-cased, the rest lower-cased
Capitalize(s) ==
    Only({ Tup([i \in 1..Len(t) |-> IF i = 1 THEN UpperChar(t[i]) ELSE LowerChar(t[i])])
           : t \in {s} })

\* code-point order of characters: ASCII before Cyrillic, upper case before
\* lower case within a script, alphabet order within a case
CharRank(c) ==
    (IF c[1] = "lat" THEN 0 ELSE IF c[1] \in {"cyr", "cy2"} THEN 1000 ELSE 2000)
    + (IF c[3] = "n" THEN 0 ELSE IF c[3] = "u" THEN 100 ELSE 200)
    + (IF c[1] = "cyr" THEN 3 * IndexIn(c[2], CyrOrder)
       ELSE IF c[1] = "cy2"
            THEN (IF c[2] = "j" THEN 3 * IndexIn("i", CyrOrder) + 1
                  ELSE IF c[2] = "c" THEN 3 * IndexIn("c", CyrOrder) + 1
                  ELSE IF c[2] = "w" THEN 3 * IndexIn("w", CyrOrder) + 1
                  ELSE IF c[2] = "x" THEN 3 * IndexIn("w", CyrOrder) + 2
                  ELSE IF c[2] = "e" THEN 3 * IndexIn("x", CyrOrder) + 1
                  ELSE 3 * IndexIn("x", CyrOrder) + 2)
            ELSE IndexIn(c[2], LowerLetters))

\* lexicographic order of strings, as sort_values orders the name column
StrLess(a, b) ==
    \E x \in {a} : \E y \in {b} :
        \E k \in 1..(Len(y)) :
            /\ \A j \in 1..(k - 1) : j <= Len(x) /\ x[j] = y[j]
            /\ \/ k > Len(x)
               \/ CharRank(x[k]) < CharRank(y[k])

\* the text literals of the program
S_NAN == Lat("nan")
S_VIP == Lat("VIP")
S_PRIORITY == Lat("PRIORITY")
S_KZ == Lat("KZ")
S_ENG == Lat("ENG")
S_DOT == Lat(".")
S_SEMICOLON == Lat(";")
S_COMMA == Lat(",")
S_YO == Ext("e")
S_YE == Cyr("e")
S_SPECIALIST == Cyr("specialist")
S_SPEC == Cyr("spec")
S_GLAV == Cyr("glav")
S_OFIS == Cyr("ofis")
S_ASTAN == Cyr("astan")
S_ALMAT == Cyr("almat")

\* ------------------------------------------------------- table cells

\* a missing cell (NaN); str() of it is the text "nan"
NaN == << <<"nan", "", "n">> >>
Str(x) == IF x = NaN THEN S_NAN ELSE x

\* a load that does not parse filled with 1 instead of 0
ToLoad_FillOne(cell) ==
    IF cell[1] = "num"
    THEN IF cell[2] >= 0 THEN cell[2] \div 10 ELSE 0 - ((0 - cell[2]) \div 10)
    ELSE 1

\* pd.to_numeric(errors="coerce").fillna(0).astype(int) of one load cell.
\* A load cell is <<"num", v10>> (the number v10 / 10), <<"text">> or <<"nan">>.
ToLoad(cell) ==
    IF cell[1] = "num"
    THEN IF cell[2] >= 0 THEN cell[2] \div 10 ELSE 0 - ((0 - cell[2]) \div 10)
    ELSE 0

\* pos_norm of one position cell
PosNorm(position) ==
    Strip(Replace(Replace(Replace(Lower(Str(position)), S_YO, S_YE), S_DOT, <<>>),
                  S_SPECIALIST, S_SPEC))

SeqToSet(q) == {q[k] : k \in 1..Len(q)}

_parse_skills(x) ==
    IF x = NaN THEN {}
    ELSE Only({ IF s = <<>> \/ Lower(s) = S_NAN THEN {}
                ELSE {Upper(p) :
                        p \in {Strip(q) : q \in SeqToSet(Split(Replace(s, S_SEMICOLON, S_COMMA),
                                                             S_COMMA[1]))} \ {<<>>}}
                : s \in {Strip(Str(x))} })

\* ---------------------------------------------------------------- loader

\* Python's None where a text is expected
None == << <<"none", "", "n">> >>

\* the text csv.reader yields for a cell (an empty field is the empty text,
\* which pandas reads as NaN)
CsvText(cell) == IF cell = NaN THEN <<>> ELSE cell

\* clean(value)
clean(value) ==
    IF value = None THEN None
    ELSE Only({IF v = <<>> THEN None ELSE v : v \in {Strip(value)}})

\* re.split(r"[,;]", value)
RECURSIVE SplitAny(_, _)
SplitAny(s, seps) ==
    Only({ IF \E i \in 1..Len(t) : t[i] \in seps
           THEN LET i == CHOOSE k \in 1..Len(t) :
                             t[k] \in seps /\ \A j \in 1..(k - 1) : t[j] \notin seps
                IN  <<SubSeq(t, 1, i - 1)>> \o SplitAny(SubSeq(t, i + 1, Len(t)), seps)
           ELSE <<t>>
           : t \in {s} })

NonBlank(s) == Strip(s) # <<>>

\* parse_skills(value): a list, in the order of the text
parse_skills(value) ==
    IF value = None \/ value = <<>> \/ Strip(value) = <<>> THEN <<>>
    ELSE Only({ Tup([k \in 1..Len(parts) |-> Upper(Strip(parts[k]))])
                : parts \in {SelectSeq(SplitAny(value, {S_COMMA[1], S_SEMICOLON[1]}), NonBlank)} })

\* one record of parse_managers(); the count of tickets in work is read from
\* the text of the file and is not part of the record here
ManagerRecord(row) ==
    [full_name   |-> clean(CsvText(row.name)),
     position    |-> clean(CsvText(row.position)),
     office_name |-> clean(CsvText(row.office)),
     skills      |-> parse_skills(clean(CsvText(row.skills)))]

\* parse_managers(filepath) on the file the managers table was read from: a
\* row without a name is skipped
parse_managers(mdf) ==
    SelectSeq(Tup([r \in 1..Len(mdf) |-> ManagerRecord(mdf[r])]),
              LAMBDA rec : rec.full_name # None)

\* one row of self.managers after __init__
IngestManager(row) ==
    [name       |-> Strip(Str(row.name)),
     position   |-> row.position,
     skills     |-> row.skills,
     office     |-> Strip(Str(row.office)),
     load       |-> ToLoad(row.load),
     pos_norm   |-> PosNorm(row.position),
     skills_set |-> _parse_skills(row.skills)]

IngestUnits(udf) == Tup([i \in 1..Len(udf) |-> Strip(Str(udf[i]))])

_find_canonical_office(units_, pattern) ==
    Only({ IF found # {}
           THEN units_[CHOOSE i \in found : \A j \in found : i <= j]
           ELSE Capitalize(pattern)
           : found \in {{i \in 1..Len(units_) : Contains(pattern, Lower(units_[i]))}} })

\* --------------------------------------------------------------- schema

\* COLUMN_ALIASES, in its declared order: <<canonical name, aliases>>
COLUMN_ALIASES ==
    << <<Lat("guid"), <<Lat("guid ") \o Cyr("klienta"), Lat("guid"), Lat("client_guid"),
                        Lat("id")>> >>,
       <<Lat("description"), <<Cyr("opisanie"),
                               Cyr("tekst obra") \o Cy2("w") \o Cyr("eniq"),
                               Lat("description")>> >>,
       <<Lat("segment"), <<Cyr("segment klienta"), Cyr("segment"), Lat("segment")>> >>,
       <<Lat("country"), <<Cyr("strana"), Lat("country")>> >>,
       <<Lat("city"), <<Cyr("naselenny") \o Cy2("j") \o Cyr(" punkt"), Cyr("gorod"),
                        Lat("city"),
                        Cyr("nasel") \o Ext("e") \o Cyr("nny") \o Cy2("j") \o Cyr(" punkt")>> >>,
       <<Lat("name"), <<Cyr("fio"), Cyr("menedjer"), Lat("name")>> >>,
       <<Lat("position"), <<Cyr("doljnostx"), Cyr("poziciq"), Lat("position")>> >>,
       <<Lat("skills"), <<Cyr("navyki"), Lat("skills")>> >>,
       <<Lat("load"), <<Cyr("koli") \o Cy2("c") \o Cyr("estvo obra") \o Cy2("w") \o Cyr("eni")
                            \o Cy2("j") \o Cyr(" v rabote"),
                        Cyr("kol-vo obra") \o Cy2("w") \o Cyr("eni") \o Cy2("j")
                            \o Cyr(" v rabote"),
                        Cyr("nagruzka"), Lat("load")>> >>,
       <<Lat("office"), <<Cyr("ofis"), Cyr("biznes-edinica"), Lat("unit"),
                          Lat("business_unit")>> >> >>

\* the required columns of the three tables
RequiredTickets ==
    {Lat("guid"), Lat("description"), Lat("segment"), Lat("country"), Lat("city")}
RequiredManagers == {Lat("name"), Lat("position"), Lat("skills"), Lat("load"), Lat("office")}
RequiredUnits == {Lat("office")}

\* df.columns.astype(str).str.strip().str.lower().str.replace(...): one header
NormalizeHeader(h) ==
    Replace(Replace(Lower(Strip(Str(h))), S_YO, S_YE), <<NBSP>>, <<SPACE>>)

\* the first alias of an entry of COLUMN_ALIASES among the columns, <<>> if none
FirstAlias(entry, cols) ==
    Only({ IF present = {} THEN <<>>
           ELSE entry[2][CHOOSE a \in present : \A b \in present : a <= b]
           : present \in {{a \in 1..Len(entry[2]) : entry[2][a] \in cols}} })

\* the column names after normalization and df.rename(columns=rename_map)
RenamedColumns(headers) ==
    Only({ {IF \E e \in 1..Len(COLUMN_ALIASES) : FirstAlias(COLUMN_ALIASES[e], cols) = c
            THEN COLUMN_ALIASES[CHOOSE e \in 1..Len(COLUMN_ALIASES) :
                                    FirstAlias(COLUMN_ALIASES[e], cols) = c][1]
            ELSE c
            : c \in cols}
           : cols \in {{NormalizeHeader(headers[h]) : h \in 1..Len(headers)}} })

\* missing = set(required) - set(df.columns)
MissingColumns(headers, required) == required \ RenamedColumns(headers)

\* only the tickets table validated
SchemaOK_TicketsOnly(cols) == MissingColumns(cols.tickets, RequiredTickets) = {}

\* no _smart_normalize call of __init__ raises
SchemaOK(cols) ==
    /\ MissingColumns(cols.tickets, RequiredTickets) = {}
    /\ MissingColumns(cols.managers, RequiredManagers) = {}
    /\ MissingColumns(cols.units, RequiredUnits) = {}

\* ------------------------------------------------------------ analysis

SEG_VIP == "VIP"
SEG_PRIORITY == "PRIORITY"
SEG_MASS == "MASS"

LANG_KZ == "KZ"
LANG_ENG == "ENG"
LANG_RU == "RU"

\* the intent categories (the Russian names, transliterated)
T_CONSULT == "Konsultaciya"
T_FRAUD == "Moshennicheskie dejstviya"
T_APPFAIL == "Nerabotosposobnost prilozheniya"
T_CLAIM == "Pretenziya"
T_DATACHANGE == "Smena dannyh"
T_COMPLAINT == "Zhaloba"
T_SPAM == "Spam"

\* the keyword table of analyze_ticket, in its declared order
keywords ==
    << <<T_FRAUD,      {Cyr("mowennik"), Cyr("ukrali"), Cyr("frod"), Cyr("vzlom")}>>,
       <<T_APPFAIL,    {Cyr("owibka"), Cyr("bag"), Cyr("ne rabotaet"), Cyr("vyletaet")}>>,
       <<T_CLAIM,      {Cyr("pretenziq"), Cyr("vozvrat"), Cyr("sud"), Cyr("kompensaciq")}>>,
       <<T_DATACHANGE, {Cyr("pasport"), Cyr("dannye"), Cyr("fio"), Cyr("smena"), Cyr("izmenitx")}>>,
       <<T_COMPLAINT,  {Cyr("jaloba"), Cyr("ujasno"), Cyr("ploho"), Cyr("nedovolen")}>>,
       <<T_SPAM,       {Cyr("reklama"), Cyr("vyigrali"), Cyr("priz"), Cyr("akciq")}>> >>

\* the character class of the Kazakh-letter pattern
KazakhLetters ==
    {<<"ext", l, "l">> : l \in {"a", "g", "q", "n", "o", "u", "y", "h", "i"}}
        \cup {<<"ext", "i", "u">>}

IsLatinLower(c) == c[1] = "lat" /\ c[3] = "l"
IsCyrLower(c) == c[1] \in {"cyr", "cy2"} /\ c[3] = "l"

\* re.search(r"[a-z]{3,}", text)
HasLatinRun(text) ==
    \E i \in 1..(Len(text) - 2) : \A j \in i..(i + 2) : IsLatinLower(text[j])

Max(a, b) == IF a >= b THEN a ELSE b
Min(a, b) == IF a <= b THEN a ELSE b

\* the segment bucket of the upper-cased raw segment
SegmentOf(raw_seg) ==
    IF Contains(S_VIP, raw_seg) THEN SEG_VIP
    ELSE IF Contains(S_PRIORITY, raw_seg) THEN SEG_PRIORITY
    ELSE SEG_MASS

\* the language of the lower-cased description
LangOf(text) ==
    IF \E i \in 1..Len(text) : text[i] \in KazakhLetters THEN LANG_KZ
    ELSE IF HasLatinRun(text) THEN LANG_ENG
    ELSE LANG_RU

\* the last category of the keyword table with a keyword in the text
TypeOf_LastMatch(text) ==
    Only({ IF hits = {} THEN T_CONSULT
           ELSE keywords[CHOOSE k \in hits : \A j \in hits : k >= j][1]
           : hits \in {{k \in 1..Len(keywords) :
                          \E w \in keywords[k][2] : Contains(w, text)}} })

\* the first category of the keyword table with a keyword in the text
TypeOf(text) ==
    Only({ IF hits = {} THEN T_CONSULT
           ELSE keywords[CHOOSE k \in hits : \A j \in hits : k <= j][1]
           : hits \in {{k \in 1..Len(keywords) :
                          \E w \in keywords[k][2] : Contains(w, text)}} })

PriorityOf(t_type, segment) ==
    Only({ IF segment = SEG_VIP THEN Max(p0, 10)
           ELSE IF segment = SEG_PRIORITY THEN Max(p0, 8)
           ELSE p0
           : p0 \in {IF t_type \in {T_FRAUD, T_CLAIM} THEN 9
                     ELSE IF t_type \in {T_COMPLAINT, T_APPFAIL} THEN 7
                     ELSE 3} })

analyze_ticket(ticket) ==
    Only({ [type |-> t_type, lang |-> LangOf(text),
            priority |-> PriorityOf(t_type, segment), segment |-> segment]
           : text \in {Lower(Str(ticket.description))},
             t_type \in {TypeOf(Lower(Str(ticket.description)))},
             segment \in {SegmentOf(Upper(Str(ticket.segment)))} })

\* -------------------------------------------------------------- office

\* re.sub(r"[^a-zа-я]+", "", country)
KeepLetters(s) ==
    Only({ Only({ Tup([k \in 1..Cardinality(keep) |->
                         t[CHOOSE i \in keep : Cardinality({j \in keep : j < i}) = k - 1]])
                  : keep \in {{i \in 1..Len(t) : IsLatinLower(t[i]) \/ IsCyrLower(t[i])}} })
           : t \in {s} })

\* the token list without the two-letter country code
DomesticTokens_NoCode == {Cyr("kazahstan"), Lat("kazakhstan")}

DomesticTokens == {Cyr("kazahstan"), Lat("kazakhstan"), Lat("kz")}

\* the root of a unit name against which the city is matched
OfficeRoot(off) == Strip(Replace(Lower(off), S_OFIS, <<>>))

\* containment tested in one direction only (root in city)
CityMatches_OneWay(units_, city) ==
    {k \in 1..Len(units_) :
        \E root \in {OfficeRoot(units_[k])} : root # <<>> /\ Contains(root, city)}

\* the units, by position, whose root matches the lower-cased city
CityMatches(units_, city) ==
    {k \in 1..Len(units_) :
        \E root \in {OfficeRoot(units_[k])} :
            /\ root # <<>>
            /\ \/ Contains(root, city)
               \/ Contains(city, root)}

\* the counter stepped on the domestic default as well
get_office_CountsDomestic(ticket, units_, astana, almaty, counter) ==
    Only({ IF match # {}
           THEN [office |-> units_[CHOOSE k \in match : \A j \in match : k <= j],
                 counter |-> counter]
           ELSE IF ~ \E x \in DomesticTokens : Contains(x, country_norm)
                THEN [office |-> IF counter % 2 = 0 THEN astana ELSE almaty,
                      counter |-> counter + 1]
                ELSE [office |-> astana, counter |-> counter + 1]
           : country_norm \in {KeepLetters(Lower(Str(ticket.country)))},
             match \in {CityMatches(units_, Lower(Str(ticket.city)))} })

\* get_office: the office returned and the value it leaves in unknown_loc_counter
get_office(ticket, units_, astana, almaty, counter) ==
    Only({ IF match # {}
           THEN [office |-> units_[CHOOSE k \in match : \A j \in match : k <= j],
                 counter |-> counter]
           ELSE IF ~ \E x \in DomesticTokens : Contains(x, country_norm)
                THEN [office |-> IF counter % 2 = 0 THEN astana ELSE almaty,
                      counter |-> counter + 1]
                ELSE [office |-> astana, counter |-> counter]
           : country_norm \in {KeepLetters(Lower(Str(ticket.country)))},
             match \in {CityMatches(units_, Lower(Str(ticket.city)))} })

\* -------------------------------------------------------- distribution

ESCALATION == Lat("CAPITAL_ESCALATION")
UNASSIGNED == Lat("UNASSIGNED")

Rows(mgrs) == 1..Len(mgrs)

\* self.managers[self.managers["office"] == office]
OfficePool(mgrs, office) == {r \in Rows(mgrs) : mgrs[r].office = office}

HasVIP(m) == S_VIP \in m.skills_set
IsChiefSpec(m) == Contains(S_GLAV, m.pos_norm) /\ Contains(S_SPEC, m.pos_norm)
HasLang(m, lang) == (IF lang = LANG_KZ THEN S_KZ ELSE S_ENG) \in m.skills_set

\* the segment gate applied to the VIP bucket only
SegmentGate_VipOnly(mgrs, sub, ai) ==
    IF ai.segment = SEG_VIP THEN {r \in sub : HasVIP(mgrs[r])} ELSE sub

\* the VIP filter switched on by the priority instead of the segment
SegmentGate_ByPriority(mgrs, sub, ai) ==
    IF ai.priority >= 8 THEN {r \in sub : HasVIP(mgrs[r])} ELSE sub

\* 1. VIP filter
SegmentGate(mgrs, sub, ai) ==
    IF ai.segment \in {SEG_VIP, SEG_PRIORITY} THEN {r \in sub : HasVIP(mgrs[r])} ELSE sub

\* the position filter dropped when nobody passes it
DataChangeGate_Soft(mgrs, sub, ai) ==
    IF ai.type = T_DATACHANGE /\ \E r \in sub : IsChiefSpec(mgrs[r])
    THEN {r \in sub : IsChiefSpec(mgrs[r])} ELSE sub

\* 2. Chief specialist filter
DataChangeGate(mgrs, sub, ai) ==
    IF ai.type = T_DATACHANGE THEN {r \in sub : IsChiefSpec(mgrs[r])} ELSE sub

\* the language mask taken over the whole table instead of the subset
LanguageGate_WholeTable(mgrs, sub, ai) ==
    IF ai.lang \in {LANG_KZ, LANG_ENG}
    THEN {r \in Rows(mgrs) : HasLang(mgrs[r], ai.lang)} ELSE sub

\* 3. Language filter
LanguageGate(mgrs, sub, ai) ==
    IF ai.lang \in {LANG_KZ, LANG_ENG} THEN {r \in sub : HasLang(mgrs[r], ai.lang)} ELSE sub

\* the pipeline also dropping the managers without any skill
FilterPipeline_SkilledOnly(mgrs, office, ai) ==
    {r \in LanguageGate(mgrs, DataChangeGate(mgrs, SegmentGate(mgrs, OfficePool(mgrs, office), ai), ai), ai) :
        mgrs[r].skills_set # {}}

FilterPipeline(mgrs, office, ai) ==
    LanguageGate(mgrs, DataChangeGate(mgrs, SegmentGate(mgrs, OfficePool(mgrs, office), ai), ai), ai)

\* escalation triggered for PRIORITY tickets as well
ShouldEscalate_Premium(ai, sub) == ai.segment \in {SEG_VIP, SEG_PRIORITY} /\ sub = {}

\* VIP escalation to capital: the trigger and the recomputed candidates
ShouldEscalate(ai, sub) == ai.segment = SEG_VIP /\ sub = {}

\* the capital managers without the VIP skill filter
CapitalSubset_NoSkill(mgrs, astana, almaty) ==
    {r \in Rows(mgrs) : mgrs[r].office \in {astana, almaty}}

CapitalSubset(mgrs, astana, almaty) ==
    {r \in Rows(mgrs) : mgrs[r].office \in {astana, almaty} /\ HasVIP(mgrs[r])}

\* fallback to every manager of the table, whatever the office
FallbackSubset_WholeTable(mgrs, sub, office, fb) ==
    IF sub = {} /\ fb THEN Rows(mgrs) ELSE sub

\* fallback: the pool of the office variable as it stands after escalation
FallbackSubset(mgrs, sub, office, fb) ==
    IF sub = {} /\ fb THEN OfficePool(mgrs, office) ELSE sub

\* sort_values(["load", "name"]): a stable sort, rows in table order on full ties
SortsBefore(mgrs, a, b) ==
    \/ mgrs[a].load < mgrs[b].load
    \/ /\ mgrs[a].load = mgrs[b].load
       /\ \/ StrLess(mgrs[a].name, mgrs[b].name)
          \/ mgrs[a].name = mgrs[b].name /\ a < b

SortRank(mgrs, sub, r) == Cardinality({q \in sub : SortsBefore(mgrs, q, r)})

\* the sorted candidates without the cut to two
Top2_All(mgrs, sub) == sub

\* subset.head(2)
Top2(mgrs, sub) == {r \in sub : SortRank(mgrs, sub, r) < 2}

\* always the last of the top two, whatever the counter
Select_Last(mgrs, sub, rr_idx) ==
    CHOOSE r \in Top2(mgrs, sub) :
        SortRank(mgrs, sub, r) = Cardinality(Top2(mgrs, sub)) - 1

\* top_2.iloc[rr_idx % len(top_2)]
Select(mgrs, sub, rr_idx) ==
    CHOOSE r \in Top2(mgrs, sub) :
        SortRank(mgrs, sub, r) = rr_idx % Cardinality(Top2(mgrs, sub))

\* self.rr_counters.get(rr_key, 0)
RRGet(rr, key) == IF key \in DOMAIN rr THEN rr[key] ELSE 0

\* the map replaced by the one entry instead of updated
RRPut_Replace(rr, key, value) == [k \in {key} |-> value]

\* self.rr_counters[rr_key] = value
RRPut(rr, key, value) ==
    [k \in (DOMAIN rr) \cup {key} |-> IF k = key THEN value ELSE rr[k]]

\* the increment landing on the first row of the table instead of the selected row
IncLoad_FirstRow(mgrs, r) == [mgrs EXCEPT ![1].load = @ + 1]

\* self.managers.at[selected.name, "load"] += 1
IncLoad(mgrs, r) == [mgrs EXCEPT ![r].load = @ + 1]

\* the counter stepped before the emptiness test
CountersAfter_Always(rr, sub, key) == RRPut(rr, key, RRGet(rr, key) + 1)

\* the counter of an escalation key left where it was
CountersAfter_SkipEscalation(rr, sub, key) ==
    IF sub # {} /\ key[1] # ESCALATION THEN RRPut(rr, key, RRGet(rr, key) + 1) ELSE rr

\* the per-ticket effect on the counters and the loads
CountersAfter(rr, sub, key) ==
    IF sub # {} THEN RRPut(rr, key, RRGet(rr, key) + 1) ELSE rr

\* the increment landing on every candidate instead of the selected one
ManagersAfter_AllCandidates(mgrs, sub, selected) ==
    Tup([r \in Rows(mgrs) |-> IF r \in sub THEN [mgrs[r] EXCEPT !.load = @ + 1] ELSE mgrs[r]])

ManagersAfter(mgrs, sub, selected) ==
    IF sub # {} THEN IncLoad(mgrs, selected) ELSE mgrs

\* a result appended only for an assigned ticket
ResultsAfter_AssignedOnly(res, row) ==
    IF row.manager = UNASSIGNED THEN res ELSE Append(res, row)

\* results.append(row): every iteration appends, assigned or not
ResultsAfter(res, row) == Append(res, row)

ResultRow(ticket, ai, office, manager_final) ==
    [guid     |-> ticket.guid,
     ai_type  |-> ai.type,
     ai_lang  |-> ai.lang,
     priority |-> ai.priority,
     office   |-> office,
     manager  |-> manager_final]

\* ---------------------------------------------------------- classifier

\* The two classifiers, src/ai/ai_analyzer_gemini.py and
\* src/ai/ai_analyzer_lmstudio.py.  A Python value is a pair <<tag, payload>>:
\* a string, an int, a float (in tenths), a bool (0 or 1), a string that
\* int() parses (its number), None, a non-empty list, the floats inf and
\* nan, and the mark of a key that a dict does not hold.
PyStr(s) == <<"str", s>>
PyNumStr(n) == <<"numstr", n>>
PyInt(n) == <<"int", n>>
PyFloat(tenths) == <<"float", tenths>>
PyBool(b) == <<"bool", b>>
PyNone == <<"none", 0>>
PyList == <<"list", 0>>
PyInf == <<"inf", 0>>
PyNaN == <<"nan", 0>>
Missing == <<"missing", 0>>

GEMINI == "gemini"
LMSTUDIO == "lmstudio"

S_POSITIVE == "Pozitivnyj"
S_NEUTRAL == "Nejtralnyj"
S_NEGATIVE == "Negativnyj"

VALID_INTENTS ==
    {PyStr(t) : t \in {T_COMPLAINT, T_DATACHANGE, T_CONSULT, T_CLAIM, T_APPFAIL, T_FRAUD,
                       T_SPAM}}
VALID_SENTIMENTS == {PyStr(S_POSITIVE), PyStr(S_NEUTRAL), PyStr(S_NEGATIVE)}
VALID_LANGUAGES == {PyStr(LANG_RU), PyStr(LANG_KZ), PyStr(LANG_ENG)}

MAX_RETRIES == 3

\* the keyword table of _fallback_analysis, in its declared order
intent_map ==
    << <<T_FRAUD,      {Cyr("mowennik"), Cyr("ukrali"), Cyr("frod"), Cyr("vzlom"),
                        Cyr("nesankcionir")}>>,
       <<T_APPFAIL,    {Cyr("owibka"), Cyr("bag"), Cyr("ne rabotaet"), Cyr("vyletaet"),
                        Cyr("zavisaet")}>>,
       <<T_CLAIM,      {Cyr("pretenziq"), Cyr("vozvrat"), Cyr("sud"), Cyr("kompensaciq")}>>,
       <<T_DATACHANGE, {Cyr("pasport"), Cyr("dannye"), Cyr("fio"), Cyr("smena"), Cyr("izmenitx")}>>,
       <<T_COMPLAINT,  {Cyr("jaloba"), Cyr("ujasno"), Cyr("ploho"), Cyr("nedovolen"),
                        Cyr("otvratitelxno")}>>,
       <<T_SPAM,       {Cyr("reklama"), Cyr("vyigrali"), Cyr("priz"), Cyr("akciq"),
                        Cyr("rozygryw")}>> >>

priority_map(intent) ==
    IF intent = T_FRAUD THEN 9
    ELSE IF intent = T_CLAIM THEN 8
    ELSE IF intent \in {T_COMPLAINT, T_APPFAIL} THEN 7
    ELSE IF intent = T_DATACHANGE THEN 5
    ELSE IF intent = T_CONSULT THEN 3
    ELSE 1

\* the negative words: the Gemini module has one more than the LM Studio module
neg_words(analyzer_) ==
    {Cyr("ploho"), Cyr("ujasno"), Cyr("nedovolen"), Cyr("zlo") \o Cy2("j"), Cyr("mowennik"),
     Cyr("ukrali")}
        \cup (IF analyzer_ = GEMINI THEN {Cyr("vozmu") \o Cy2("w") \o Cyr("en")} ELSE {})

pos_words ==
    {Cyr("spasibo"), Cyr("otli") \o Cy2("c") \o Cyr("no"), Cyr("horowo"), Cyr("pomogli"),
     Cyr("dovolen")}

\* the lower-case Kazakh letters of the pattern of _fallback_analysis
KazakhLower == {<<"ext", l, "l">> : l \in {"a", "g", "q", "n", "o", "u", "y", "h", "i"}}

FallbackIntent(text) ==
    Only({ IF hits = {} THEN T_CONSULT
           ELSE intent_map[CHOOSE k \in hits : \A j \in hits : k <= j][1]
           : hits \in {{k \in 1..Len(intent_map) :
                          \E w \in intent_map[k][2] : Contains(w, text)}} })

FallbackSentiment(analyzer_, text) ==
    IF \E w \in neg_words(analyzer_) : Contains(w, text) THEN S_NEGATIVE
    ELSE IF \E w \in pos_words : Contains(w, text) THEN S_POSITIVE
    ELSE S_NEUTRAL

FallbackLanguage(text) ==
    IF \E i \in 1..Len(text) : text[i] \in KazakhLower THEN LANG_KZ
    ELSE IF HasLatinRun(text) THEN LANG_ENG
    ELSE LANG_RU

\* _fallback_analysis(message) of either module; a text made from the intent
\* is the pair of its template and the intent
_fallback_analysis(analyzer_, message) ==
    Only({ [intent             |-> PyStr(intent),
            sentiment          |-> PyStr(FallbackSentiment(analyzer_, text)),
            suggested_priority |-> PyInt(priority_map(intent)),
            language           |-> PyStr(FallbackLanguage(text)),
            summary            |-> IF analyzer_ = GEMINI
                                   THEN <<"summary, Gemini template", intent>>
                                   ELSE <<"summary, LM Studio template", intent>>,
            recommendation     |-> IF analyzer_ = GEMINI
                                   THEN <<"recommendation, Gemini template", intent>>
                                   ELSE PyStr("Proverit detali zaprosa."),
            _source            |-> IF analyzer_ = GEMINI THEN PyStr("fallback") ELSE Missing]
           : text \in {Lower(message)}, intent \in {FallbackIntent(Lower(message))} })

_empty_result ==
    [intent             |-> PyStr(T_CONSULT),
     sentiment          |-> PyStr(S_NEUTRAL),
     suggested_priority |-> PyInt(1),
     language           |-> PyStr(LANG_RU),
     summary            |-> PyStr("Obrashchenie pustoe ili otsutstvuet."),
     recommendation     |-> PyStr("Utochnit zapros u klienta."),
     _source            |-> Missing]

\* bool(v) of Python
Truthy(v) ==
    /\ v[1] \notin {"none", "missing"}
    /\ v # PyStr("")
    /\ ~ (v[1] \in {"int", "float", "bool"} /\ v[2] = 0)

\* hash(v) raises TypeError
Unhashable(v) == v[1] = "list"

\* int(v): the error it raises ("" when none) and the integer
IntOf(v) ==
    IF v[1] \in {"int", "bool", "numstr"} THEN [raises |-> "", value |-> v[2]]
    ELSE IF v[1] = "float"
    THEN [raises |-> "",
          value  |-> IF v[2] >= 0 THEN v[2] \div 10 ELSE 0 - ((0 - v[2]) \div 10)]
    ELSE IF v[1] = "inf" THEN [raises |-> "OverflowError", value |-> 0]
    ELSE IF v[1] \in {"nan", "str"} THEN [raises |-> "ValueError", value |-> 0]
    ELSE [raises |-> "TypeError", value |-> 0]

\* the priority step without the clamp to 1..10
FixPriority_NoClamp(v) ==
    Only({ IF p.raises = "" THEN [raises |-> "", value |-> PyInt(p.value)]
           ELSE IF p.raises \in {"TypeError", "ValueError"}
                THEN [raises |-> "", value |-> PyInt(3)]
                ELSE [raises |-> p.raises, value |-> Missing]
           : p \in {IntOf(IF v = Missing THEN PyInt(3) ELSE v)} })

\* the priority step of _validate_and_fix: the error that leaves the function
\* ("" when none) and the value stored
FixPriority(v) ==
    Only({ IF p.raises = "" THEN [raises |-> "", value |-> PyInt(Max(1, Min(10, p.value)))]
           ELSE IF p.raises \in {"TypeError", "ValueError"}
                THEN [raises |-> "", value |-> PyInt(3)]
                ELSE [raises |-> p.raises, value |-> Missing]
           : p \in {IntOf(IF v = Missing THEN PyInt(3) ELSE v)} })

\* A JSON document is [kind, fields]: an object with its seven keys (Missing
\* for a key it does not hold), or a list, null or number.
Fields(intent, sentiment, suggested_priority, language, summary, recommendation, source) ==
    [intent |-> intent, sentiment |-> sentiment, suggested_priority |-> suggested_priority,
     language |-> language, summary |-> summary, recommendation |-> recommendation,
     _source |-> source]

NoFields == Fields(Missing, Missing, Missing, Missing, Missing, Missing, Missing)

Object(fields) == [kind |-> "object", fields |-> fields]
NonObject(kind) == [kind |-> kind, fields |-> NoFields]

\* the value of `raw` before its first assignment
Unbound == [fenced |-> FALSE, json |-> NonObject("unbound")]

\* _validate_and_fix(data, original_message) of either module: the error that
\* leaves the function ("" when none) and the record returned.  A document
\* that is no object has no method get; a list is no member of a set.
_validate_and_fix(analyzer_, data, original_message) ==
    IF data.kind # "object" THEN [raises |-> "AttributeError", data |-> NoFields]
    ELSE IF Unhashable(data.fields.intent) \/ Unhashable(data.fields.sentiment)
    THEN [raises |-> "TypeError", data |-> NoFields]
    ELSE IF FixPriority(data.fields.suggested_priority).raises # ""
    THEN [raises |-> FixPriority(data.fields.suggested_priority).raises, data |-> NoFields]
    ELSE IF Unhashable(data.fields.language)
    THEN [raises |-> "TypeError", data |-> NoFields]
    ELSE Only({
      [raises |-> "",
       data |->
         [intent |->
             IF d.intent \notin VALID_INTENTS
             THEN _fallback_analysis(analyzer_, original_message).intent
             ELSE d.intent,
          sentiment |->
             IF d.sentiment \notin VALID_SENTIMENTS THEN PyStr(S_NEUTRAL) ELSE d.sentiment,
          suggested_priority |-> FixPriority(d.suggested_priority).value,
          language |->
             IF d.language \notin VALID_LANGUAGES THEN PyStr(LANG_RU) ELSE d.language,
          summary |->
             IF analyzer_ = GEMINI
             THEN (IF Truthy(d.summary) THEN d.summary ELSE PyStr("Opisanie otsutstvuet."))
             ELSE (IF d.summary = Missing THEN PyStr("Opisanie otsutstvuet.")
                   ELSE d.summary),
          recommendation |->
             IF analyzer_ = GEMINI
             THEN (IF Truthy(d.recommendation) THEN d.recommendation
                   ELSE PyStr("Obrabotat standartno."))
             ELSE (IF d.recommendation = Missing THEN PyStr("Obrabotat standartno.")
                   ELSE d.recommendation),
          _source |-> IF analyzer_ = GEMINI THEN Missing ELSE d._source]]
      : d \in {data.fields} })

\* json.loads of the text of a response, after the fence stripping of the
\* Gemini module: the text is [fenced, json], json a document or "garbage"
ParseFails(analyzer_, text) ==
    \/ text.json.kind = "garbage"
    \/ text.fenced /\ analyzer_ = LMSTUDIO

\* --------------------------------------------------------------- inputs

\* longest ticket table, and the number of distribute() calls on one engine
MaxTickets == 3
MaxRuns == 2
MaxSkillLen == 3
\* longest ticket table of the engines that exercise analyze_ticket
MaxAnalysed == 2

ThreeUnits == <<Cyr("Astana"), Cyr("Ofis Almaty"), Cyr("Karaganda ")>>
OneUnit == <<Cyr("Karaganda")>>

UnitTables == {ThreeUnits, OneUnit}

ManagerRow(name, office, position, skills, load) ==
    [name |-> name, office |-> office, position |-> position,
     skills |-> skills, load |-> load]

\* two tied managers in one office, capital managers with the VIP skill
TiedManagers ==
    << ManagerRow(Cyr("Bek"), Cyr("Ofis Almaty"), Cyr("Specialist"), NaN, <<"num", 0>>),
       ManagerRow(Cyr("Ali "), Cyr("Ofis Almaty"), Cyr("Glav. Specialist"),
                  Lat("vip, eng"), <<"num", 0>>),
       ManagerRow(Cyr("Dan"), Cyr(" Astana"), Cyr("Specialist"),
                  Lat("KZ;VIP"), <<"num", 10>>) >>

\* no manager with the VIP skill anywhere
NoVipManagers ==
    << ManagerRow(Cyr("Bek"), Cyr("Karaganda"), Cyr("Specialist"), Lat(""), <<"num", 0>>),
       ManagerRow(Cyr("Ali"), Cyr("Astana"), Cyr("Glav spec"), Lat("ENG"), <<"text">>) >>

\* a local VIP manager outside the capitals, three managers in one office
LocalVipManagers ==
    << ManagerRow(Cyr("Eva"), Cyr("Karaganda"), Cyr("Glav. spec."), Lat("VIP;KZ"), <<"num", 25>>),
       ManagerRow(Cyr("Dan"), Cyr("Astana"), Cyr("Specialist"), Lat("ENG"), <<"num", 10>>),
       ManagerRow(Cyr("Bek"), Cyr("Astana"), Cyr("Specialist"), Lat("VIP"), <<"nan">>),
       ManagerRow(Cyr("Ali"), Cyr("Astana"), Cyr("Glav. Specialist"), Lat("eng, vip"),
                  <<"num", 10>>) >>

\* the engines constructed: the fallback flag, the managers table, the units table
Engines ==
    { <<FALSE, TiedManagers, ThreeUnits>>,
      <<TRUE, NoVipManagers, ThreeUnits>>,
      <<FALSE, LocalVipManagers, OneUnit>>,
      <<FALSE, LocalVipManagers, ThreeUnits>> }

TicketKind(description, segment, country, city) ==
    [description |-> description, segment |-> segment, country |-> country, city |-> city]

TicketKinds ==
    { TicketKind(Lat(""), Lat("Mass"), Cyr("Kazahstan"), Cyr("Almaty")),
      TicketKind(Cyr("Pasport"), Lat("Mass"), Cyr("Kazahstan"), Cyr("Astana")),
      TicketKind(Lat("help me"), Lat("Priority"), Lat("KZ"), Cyr("g. Astana")),
      TicketKind(Cyr("owibka"), Lat("VIP"), Cyr("Kazahstan"), Cyr("Karaganda")),
      TicketKind(Ext("q") \o Cyr("ate"), Lat("Mass"), Cyr("Franciq"), Cyr("Parij")),
      TicketKind(Lat("help me"), Lat("vip"), Cyr("Kazahstan"), Cyr("Aktau")) }

TicketTables == UNION {[1..n -> TicketKinds] : n \in 0..MaxTickets}

\* inputs that exercise the office resolver: units with a root inside another
\* root, a unit that is only the word for office
OfficeUnitTables ==
    { <<Cyr("Ofis Almaty"), Cyr("Astana Siti"), Cyr("Astana")>>,
      <<Cyr("Ofis"), Cyr("Astana"), Cyr("Ofis Almaty")>> }

OfficeManagerTables ==
    { \* three managers in one office, in another order than the order of their names
      << ManagerRow(Cyr("Bek"), Cyr("Ofis Almaty"), Cyr("Specialist"), NaN, <<"num", 0>>),
         ManagerRow(Cyr("Eva"), Cyr("Astana"), Cyr("Specialist"), Lat("vip"), <<"num", 0>>),
         ManagerRow(Cyr("Dan"), Cyr("Astana"), Cyr("Specialist"), NaN, <<"num", 0>>),
         ManagerRow(Cyr("Ali"), Cyr("Astana"), Cyr("Specialist"), NaN, <<"num", 10>>) >> }

OfficeTicketKinds ==
    { TicketKind(Lat(""), Lat("Mass"), Cyr("Franciq"), Cyr("Parij")),
      TicketKind(Lat(""), Lat("Mass"), NaN, NaN),
      TicketKind(Lat(""), Lat("Mass"), Lat("K.Z."), Cyr("Aktau")),
      TicketKind(Lat(""), Lat("Mass"), Cyr("Kazahstan"), Lat("")),
      TicketKind(Lat(""), Lat("Mass"), Cyr("Rossiq"), Cyr("Astana")) }

OfficeTicketTables == UNION {[1..n -> OfficeTicketKinds] : n \in 0..MaxTickets}

\* the headers of the three tables, under their canonical names
CanonicalColumns ==
    [tickets  |-> <<Lat("guid"), Lat("description"), Lat("segment"), Lat("country"),
                    Lat("city")>>,
     managers |-> <<Lat("name"), Lat("position"), Lat("skills"), Lat("load"), Lat("office")>>,
     units    |-> <<Lat("office")>>]

\* headers as files carry them: aliases, capitals, blanks, a no-break space,
\* yo for ye; and tables that lack a column
SchemaTicketHeaders ==
    { CanonicalColumns.tickets,
      << Lat("GUID") \o <<NBSP>> \o Cyr("klienta"), Cyr("Opisanie "), Cyr("Segment klienta"),
         Cyr("Strana"),
         Cyr("Nasel") \o Ext("e") \o Cyr("nny") \o Cy2("j") \o Cyr(" punkt") >>,
      << Lat("id"), Cyr("Opisanie"), Cyr("Segment"), Cyr("Strana"), Cyr("Adres") >>,
      << Lat("guid"), Lat("segment"), Lat("country"), Lat("city"), Cyr("ofis") >> }

SchemaManagerHeaders ==
    { CanonicalColumns.managers,
      << Cyr("FIO"), Cyr("Doljnostx "), Cyr("Ofis"), Cyr("Navyki"),
         Cyr("Koli") \o Cy2("c") \o Cyr("estvo obra") \o Cy2("w") \o Cyr("eni") \o Cy2("j")
             \o Cyr(" v rabote") >>,
      << Cyr("FIO"), Cyr("Doljnostx"), Cyr("Ofis"), Cyr("Navyki"), Lat("active_tickets") >> }

SchemaUnitHeaders ==
    { CanonicalColumns.units,
      << Cyr("Ofis"), Cyr("Adres") >>,
      << Lat("name"), Cyr("Adres") >> }

SchemaTicketKinds ==
    { TicketKind(Lat(""), Lat("Mass"), Cyr("Kazahstan"), Cyr("Astana")),
      TicketKind(Lat(""), Lat("VIP"), Cyr("Franciq"), Cyr("Parij")) }

SchemaTicketTables == UNION {[1..n -> SchemaTicketKinds] : n \in 0..MaxTickets}

\* the messages handed to analyze(): empty, blank, and texts of the three
\* languages with and without keywords
Messages ==
    { Lat(""),
      <<SPACE, NBSP>>,
      Cyr(" Ukrali pasport "),
      Lat("help me"),
      Ext("q") \o Cyr("ate, spasibo") }

BaseFields ==
    Fields(PyStr(T_SPAM), PyStr(S_NEGATIVE), PyInt(5), PyStr(LANG_KZ), PyStr("text"),
           PyStr("text"), Missing)

\* the JSON objects a model answers with: a well-formed one, that one with
\* one key changed, and the empty object
Objects ==
    {BaseFields, NoFields}
        \cup {[BaseFields EXCEPT !.intent = v] :
                 v \in {PyStr("Other"), Missing, PyNone, PyList, PyInt(1)}}
        \cup {[BaseFields EXCEPT !.sentiment = v] : v \in {PyStr("Other"), Missing, PyList}}
        \cup {[BaseFields EXCEPT !.suggested_priority = v] :
                 v \in {Missing, PyNone, PyInt(0), PyInt(77), PyInt(0 - 3), PyFloat(79),
                        PyNumStr(7), PyStr("high"), PyBool(1), PyInf, PyNaN, PyList}}
        \cup {[BaseFields EXCEPT !.language = v] : v \in {PyStr("DE"), Missing, PyList}}
        \cup {[BaseFields EXCEPT !.summary = v] :
                 v \in {Missing, PyNone, PyStr(""), PyInt(0)}}
        \cup {[BaseFields EXCEPT !.recommendation = v] : v \in {Missing, PyNone}}
        \cup {[BaseFields EXCEPT !._source = PyStr("fallback")]}

\* the texts a model call returns: JSON objects, one of them inside a
\* markdown fence, JSON that is no object, and text that is no JSON
Texts ==
    {[fenced |-> FALSE, json |-> Object(f)] : f \in Objects}
        \cup {[fenced |-> TRUE, json |-> Object(BaseFields)]}
        \cup {[fenced |-> FALSE, json |-> NonObject(k)] : k \in {"list", "null", "garbage"}}

\* the errors a model call raises
Errors(analyzer_) ==
    {"JSONDecodeError", "RuntimeError"}
        \cup (IF analyzer_ = LMSTUDIO THEN {"APIConnectionError", "APITimeoutError"} ELSE {})

\* the outcomes of one model call
Outcomes(analyzer_) ==
    {[kind |-> "raise", error |-> e, text |-> Unbound] : e \in Errors(analyzer_)}
        \cup {[kind |-> "text", error |-> "", text |-> t] : t \in Texts}

\* ---------------------------------------------------------------- state

VARIABLES
    columns,              \* the headers of the three tables handed to the constructor
    enable_fallback,      \* constructor flag
    tickets,              \* self.tickets
    managers_df,          \* the managers table handed to the constructor
    managers,             \* self.managers (load is the mutable column)
    units,                \* self.units["office"]
    astana_office,        \* self.astana_office
    almaty_office,        \* self.almaty_office
    rr_counters,          \* self.rr_counters
    unknown_loc_counter,  \* self.unknown_loc_counter
    pc,                   \* "ready": no call in progress; "loop": inside distribute();
                          \* "failed": __init__ raised, there is no engine
    processed,            \* number of tickets the call in progress has processed
    results,              \* the local list `results` of distribute()
    steps,                \* the locals of each iteration of the call in progress
    returned,             \* the tables returned by the finished calls, in order
    records,              \* the list parse_managers() of the loader returned (<<>> before)
    twin,                 \* a second engine built from the same tables: its state
                          \* after its calls, <<>> while there is none
    analyzer,             \* the classifier class (GEMINI, LMSTUDIO), "none" without one
    _client,              \* self._client is not None
    client_message,       \* the argument of analyze()
    apc,                  \* "idle": analyze() not called; "try": in the retry loop;
                          \* "fallback": the loop is left; "done": analyze() has ended
    attempt,              \* the loop variable of _call_with_retry
    raw,                  \* the local `raw` of _call_with_retry, Unbound before its
                          \* first assignment
    outcomes,             \* the outcomes of the model calls made so far
    waits,                \* the attempts after which time.sleep() was called, in order
    answer                \* how analyze() ended: the record returned or the error raised

engine_vars == <<columns, enable_fallback, tickets, managers_df, managers, units,
                 astana_office, almaty_office, rr_counters, unknown_loc_counter, pc,
                 processed, results, steps, returned>>

classifier_vars == <<analyzer, _client, client_message, apc, attempt, raw, outcomes, waits,
                     answer>>

vars == <<engine_vars, twin, records, classifier_vars>>

inputs == <<columns, enable_fallback, tickets, managers_df, units, astana_office, almaty_office>>

\* __init__ raised ValueError: no engine, nothing to call distribute() on
Failed(fb, mdf) ==
    /\ enable_fallback = fb
    /\ managers_df = mdf
    /\ tickets = <<>>
    /\ managers = <<>>
    /\ units = <<>>
    /\ astana_office = <<>>
    /\ almaty_office = <<>>
    /\ rr_counters = <<>>
    /\ unknown_loc_counter = 0
    /\ pc = "failed"
    /\ processed = 0
    /\ results = <<>>
    /\ steps = <<>>
    /\ returned = <<>>

\* the state __init__ leaves for a flag and three tables
Construct(fb, kinds, mdf, udf) ==
    /\ enable_fallback = fb
    /\ tickets = Tup([n \in 1..Len(kinds) |->
                           [guid |-> n, description |-> kinds[n].description,
                            segment |-> kinds[n].segment, country |-> kinds[n].country,
                            city |-> kinds[n].city]])
    /\ managers_df = mdf
    /\ managers = Tup([r \in 1..Len(mdf) |-> IngestManager(mdf[r])])
    /\ units = IngestUnits(udf)
    /\ astana_office = _find_canonical_office(units, S_ASTAN)
    /\ almaty_office = _find_canonical_office(units, S_ALMAT)
    /\ rr_counters = <<>>
    /\ unknown_loc_counter = 0
    /\ pc = "ready"
    /\ processed = 0
    /\ results = <<>>
    /\ steps = <<>>
    /\ returned = <<>>

NoAnswer == [kind |-> "none", record |-> NoFields, error |-> ""]

\* no classifier is part of the run
NoClassifier ==
    /\ analyzer = "none"
    /\ _client = FALSE
    /\ client_message = <<>>
    /\ apc = "none"
    /\ attempt = 0
    /\ raw = Unbound
    /\ outcomes = <<>>
    /\ waits = <<>>
    /\ answer = NoAnswer

\* FIRE_Engine_V10(tickets_df, managers_df, units_df, enable_fallback=fb)
New(fb, cols, kinds, mdf, udf) ==
    /\ columns = cols
    /\ IF SchemaOK(cols) THEN Construct(fb, kinds, mdf, udf) ELSE Failed(fb, mdf)
    /\ twin = <<>>
    /\ records = <<>>
    /\ NoClassifier

Init ==
    \E engine \in Engines, kinds \in TicketTables :
        New(engine[1], CanonicalColumns, kinds, engine[2], engine[3])

\* engines built on the office-resolver inputs
InitOffice ==
    \E kinds \in OfficeTicketTables, mdf \in OfficeManagerTables, udf \in OfficeUnitTables :
        New(FALSE, CanonicalColumns, kinds, mdf, udf)

\* constructions over tables with varying headers
InitSchema ==
    \E th \in SchemaTicketHeaders, mh \in SchemaManagerHeaders, uh \in SchemaUnitHeaders,
       kinds \in SchemaTicketTables, mdf \in OfficeManagerTables, udf \in UnitTables :
        New(FALSE, [tickets |-> th, managers |-> mh, units |-> uh], kinds, mdf, udf)

\* distribute() is called: results = []
Distribute ==
    /\ pc = "ready"
    /\ Len(returned) < MaxRuns
    /\ pc' = "loop"
    /\ processed' = 0
    /\ results' = <<>>
    /\ steps' = <<>>
    /\ UNCHANGED <<inputs, managers_df, managers, rr_counters, unknown_loc_counter, returned>>
    /\ UNCHANGED <<twin, records, classifier_vars>>

\* one iteration of the loop over self.tickets
ProcessTicket ==
    /\ pc = "loop"
    /\ processed < Len(tickets)
    /\ \E ticket \in {tickets[processed + 1]} :
       \E ai \in {analyze_ticket(ticket)} :
       \E go \in {get_office(ticket, units, astana_office, almaty_office,
                              unknown_loc_counter)} :
       \E pipe \in {FilterPipeline(managers, go.office, ai)} :
       \E esc \in {ShouldEscalate(ai, pipe)} :
       \E office \in {IF esc THEN ESCALATION ELSE go.office} :
       \E subset \in {FallbackSubset(managers,
                          IF esc THEN CapitalSubset(managers, astana_office, almaty_office)
                                 ELSE pipe,
                          office, enable_fallback)} :
       \E rr_key \in {<<office, ai.segment, ai.type, ai.lang>>} :
       \E rr_idx \in {RRGet(rr_counters, rr_key)} :
       \E selected \in {IF subset # {} THEN Select(managers, subset, rr_idx) ELSE 0} :
       \E manager_final \in {IF subset # {} THEN managers[selected].name ELSE UNASSIGNED} :
           /\ unknown_loc_counter' = go.counter
           /\ rr_counters' = CountersAfter(rr_counters, subset, rr_key)
           /\ managers' = ManagersAfter(managers, subset, selected)
           /\ results' = ResultsAfter(results, ResultRow(ticket, ai, office, manager_final))
           /\ steps' = Append(steps,
                   [ai |-> ai, resolved |-> go.office, pipe |-> pipe, escalated |-> esc,
                    subset |-> subset, selected |-> selected, rr_key |-> rr_key,
                    rr_idx |-> rr_idx,
                    loads |-> Tup([r \in Rows(managers) |-> managers[r].load]),
                    counters |-> rr_counters,
                    foreign |-> unknown_loc_counter])
    /\ processed' = processed + 1
    /\ UNCHANGED <<inputs, managers_df, pc, returned>>
    /\ UNCHANGED <<twin, records, classifier_vars>>

\* the loop is over: return pd.DataFrame(results)
Return ==
    /\ pc = "loop"
    /\ processed = Len(tickets)
    /\ returned' = Append(returned, results)
    /\ pc' = "ready"
    /\ UNCHANGED <<inputs, managers_df, managers, rr_counters, unknown_loc_counter,
                   processed, results, steps>>
    /\ UNCHANGED <<twin, records, classifier_vars>>

Next == Distribute \/ ProcessTicket \/ Return

Spec == Init /\ [][Next]_vars

SpecOffice == InitOffice /\ [][Next]_vars

SpecSchema == InitSchema /\ [][Next]_vars

\* ----------------------------------------------------------- second engine

\* the caller's managers table after an engine built from it assigned tickets,
\* were the engine to work on the caller's table itself
CallerTable_Shared(mdf, mgrs) ==
    Tup([r \in 1..Len(mdf) |-> [mdf[r] EXCEPT !.load = <<"num", 10 * mgrs[r].load>>]])

\* the caller's managers table after an engine built from it assigned tickets:
\* _smart_normalize works on df.copy(), the engine never writes to the argument
CallerTable(mdf, mgrs) == mdf

\* the mutable state of an engine right after __init__ on a managers table
Fresh(mdf) ==
    [managers            |-> Tup([r \in 1..Len(mdf) |-> IngestManager(mdf[r])]),
     rr_counters         |-> <<>>,
     unknown_loc_counter |-> 0,
     results             |-> <<>>,
     returned            |-> <<>>]

\* one iteration of the loop of distribute() on a second engine built from the
\* same ticket and unit tables with the same flag, as a function of its state
Iteration(eng, ticket) ==
    Only({ Only({ Only({ Only({ Only({ Only({
        [eng EXCEPT
           !.unknown_loc_counter = go.counter,
           !.rr_counters = CountersAfter(eng.rr_counters, subset, rr_key),
           !.managers = ManagersAfter(eng.managers, subset, selected),
           !.results = ResultsAfter(eng.results,
                          ResultRow(ticket, ai,
                                    IF esc THEN ESCALATION ELSE go.office,
                                    IF subset # {} THEN eng.managers[selected].name
                                                   ELSE UNASSIGNED))]
        : selected \in {IF subset # {}
                        THEN Select(eng.managers, subset, RRGet(eng.rr_counters, rr_key))
                        ELSE 0} })
        : rr_key \in {<<IF esc THEN ESCALATION ELSE go.office, ai.segment, ai.type, ai.lang>>} })
        : subset \in {FallbackSubset(eng.managers,
                          IF esc THEN CapitalSubset(eng.managers, astana_office, almaty_office)
                                 ELSE pipe,
                          IF esc THEN ESCALATION ELSE go.office, enable_fallback)} })
        : esc \in {ShouldEscalate(ai, pipe)} })
        : pipe \in {FilterPipeline(eng.managers, go.office, ai)} })
        : ai \in {analyze_ticket(ticket)},
          go \in {get_office(ticket, units, astana_office, almaty_office,
                             eng.unknown_loc_counter)} })

\* for _, ticket in self.tickets.iterrows()
RECURSIVE Loop(_, _)
Loop(eng, k) == IF k > Len(tickets) THEN eng ELSE Loop(Iteration(eng, tickets[k]), k + 1)

\* one call of distribute() on the second engine
Call(eng) ==
    Only({ [e EXCEPT !.returned = Append(eng.returned, e.results), !.results = <<>>]
           : e \in {Loop([eng EXCEPT !.results = <<>>], 1)} })

RECURSIVE Calls(_, _)
Calls(eng, n) == IF n = 0 THEN eng ELSE Call(Calls(eng, n - 1))

\* a second engine is built from the tables the caller holds and distribute()
\* is called on it as many times as it was on the first
RunTwin ==
    /\ pc = "ready"
    /\ Len(returned) >= 1
    /\ twin = <<>>
    /\ twin' = Calls(Fresh(CallerTable(managers_df, managers)), Len(returned))
    /\ UNCHANGED <<engine_vars, records, classifier_vars>>

NextTwin == Distribute \/ ProcessTicket \/ Return \/ RunTwin

\* the engines a second one is built beside: tied managers, and fallback
InitTwin ==
    \E engine \in {<<FALSE, TiedManagers, ThreeUnits>>, <<TRUE, NoVipManagers, ThreeUnits>>},
       kinds \in TicketTables :
        New(engine[1], CanonicalColumns, kinds, engine[2], engine[3])

SpecTwin == InitTwin /\ [][NextTwin]_vars

\* ----------------------------------------------------------- escalation

\* VIP tickets of one intent and language that resolve to three offices (one
\* without managers, one whose VIP manager lacks the language, one with a
\* manager who passes), and a VIP ticket of another intent
EscalationTicketKinds ==
    { TicketKind(Lat("help me"), Lat("VIP"), Cyr("Kazahstan"), Cyr("Karaganda")),
      TicketKind(Lat("help me"), Lat("vip"), Cyr("Kazahstan"), Cyr("Aktau")),
      TicketKind(Lat("help me"), Lat("VIP"), Cyr("Kazahstan"), Cyr("Almaty")),
      TicketKind(Cyr("owibka"), Lat("VIP"), Cyr("Kazahstan"), Cyr("Karaganda")) }

InitEscalation ==
    \E fb \in BOOLEAN,
       kinds \in UNION {[1..n -> EscalationTicketKinds] : n \in 0..MaxTickets} :
        New(fb, CanonicalColumns, kinds, TiedManagers, ThreeUnits)

SpecEscalation == InitEscalation /\ [][Next]_vars

\* ------------------------------------------------------------- analysis

\* tickets for the Almaty office that exercise analyze_ticket: descriptions
\* that are missing, empty, in capital Latin letters, with a Kazakh letter
\* before a Latin run, with two Latin letters only, with keywords of several
\* categories in either order; segments that are missing, empty, in lower
\* case, and naming both premium buckets
AnalysisTicketKinds ==
    { TicketKind(NaN, Lat("Mass"), Cyr("Kazahstan"), Cyr("Almaty")),
      TicketKind(Lat(""), NaN, Cyr("Kazahstan"), Cyr("Almaty")),
      TicketKind(Lat("HELP"), Lat("vip client"), Cyr("Kazahstan"), Cyr("Almaty")),
      TicketKind(Ext("Q") \o Lat("abc"), Lat("Priority"), Cyr("Kazahstan"), Cyr("Almaty")),
      TicketKind(Lat("ok") \o Cyr(" da"), Lat("PRIORITY, VIP"), Cyr("Kazahstan"), Cyr("Almaty")),
      TicketKind(Cyr("Ukrali pasport"), Lat("Mass"), Cyr("Kazahstan"), Cyr("Almaty")),
      TicketKind(Cyr("smena, owibka"), Lat("Mass"), Cyr("Kazahstan"), Cyr("Almaty")),
      TicketKind(Cyr("pasport i jaloba"), Lat("Priority"), Cyr("Kazahstan"), Cyr("Almaty")),
      TicketKind(Cyr("priz"), Lat(""), Cyr("Kazahstan"), Cyr("Almaty")),
      TicketKind(Cyr("Smena familii"), Lat("Mass"), Cyr("Kazahstan"), Cyr("Almaty")) }

InitAnalysis ==
    \E kinds \in UNION {[1..n -> AnalysisTicketKinds] : n \in 0..MaxAnalysed} :
        New(FALSE, CanonicalColumns, kinds, TiedManagers, ThreeUnits)

SpecAnalysis == InitAnalysis /\ [][Next]_vars

\* ------------------------------------------------------------ ingestion

\* every raw skills cell up to MaxSkillLen characters, and the missing cell;
\* the characters are a letter in both cases, white space, the two separators
RawSkills ==
    {NaN} \cup UNION {{Tup(f) : f \in [1..n -> {Lat("v")[1], Lat("V")[1], SPACE,
                                               S_COMMA[1], S_SEMICOLON[1]}]}
                       : n \in 0..MaxSkillLen}

\* raw load cells: whole, fractional, negative, text, missing
RawLoads == { <<"num", 0>>, <<"num", 20>>, <<"num", 27>>, <<"num", -50>>, <<"num", -5>>,
              <<"text">>, <<"nan">> }

IngestManagerTables ==
    { << ManagerRow(Cyr("Ali"), Cyr("Karaganda"), Cyr("Specialist"), skills, <<"num", 0>>) >>
        : skills \in RawSkills }
    \cup { << ManagerRow(Cyr("Ali"), Cyr("Karaganda"), Cyr("Specialist"), Lat("vip"), load) >>
        : load \in RawLoads }

\* engines over the raw cells, with a MASS and a VIP ticket for the one office
InitIngest ==
    \E mdf \in IngestManagerTables :
        New(FALSE, CanonicalColumns,
            << TicketKind(Lat(""), Lat("Mass"), Cyr("Kazahstan"), Cyr("Karaganda")),
               TicketKind(Cyr("owibka"), Lat("VIP"), Cyr("Kazahstan"), Cyr("Karaganda")) >>,
            mdf, OneUnit)

\* the loader reads the managers file
ParseManagers ==
    /\ records = <<>>
    /\ records' = parse_managers(managers_df)
    /\ UNCHANGED <<engine_vars, twin, classifier_vars>>

NextIngest == Distribute \/ ProcessTicket \/ Return \/ ParseManagers

SpecIngest == InitIngest /\ [][NextIngest]_vars

\* ----------------------------------------------------- classifier calls

\* no engine is part of the run
NoEngine ==
    /\ columns = <<>>
    /\ enable_fallback = FALSE
    /\ managers_df = <<>>
    /\ tickets = <<>>
    /\ managers = <<>>
    /\ units = <<>>
    /\ astana_office = <<>>
    /\ almaty_office = <<>>
    /\ rr_counters = <<>>
    /\ unknown_loc_counter = 0
    /\ pc = "none"
    /\ processed = 0
    /\ results = <<>>
    /\ steps = <<>>
    /\ returned = <<>>
    /\ twin = <<>>
    /\ records = <<>>

\* a classifier of either class, the Gemini one with or without an API key,
\* and the message it will be asked about
InitAnalyzer ==
    /\ NoEngine
    /\ \E a \in {GEMINI, LMSTUDIO}, key \in BOOLEAN, m \in Messages :
         /\ analyzer = a
         /\ _client = (a = LMSTUDIO \/ key)
         /\ client_message = m
    /\ apc = "idle"
    /\ attempt = 0
    /\ raw = Unbound
    /\ outcomes = <<>>
    /\ waits = <<>>
    /\ answer = NoAnswer

Returns(record) == [kind |-> "return", record |-> record, error |-> ""]
Raises(error) == [kind |-> "raise", record |-> NoFields, error |-> error]

\* analyze(client_message) up to the call of _call_with_retry
Analyze ==
    /\ apc = "idle"
    /\ IF Strip(client_message) = <<>>
       THEN apc' = "done" /\ answer' = Returns(_empty_result) /\ attempt' = attempt
       ELSE IF ~ _client
       THEN /\ apc' = "done"
            /\ answer' = Returns(_fallback_analysis(analyzer, Strip(client_message)))
            /\ attempt' = attempt
       ELSE apc' = "try" /\ attempt' = 1 /\ answer' = answer
    /\ UNCHANGED <<analyzer, _client, client_message, raw, outcomes, waits>>
    /\ UNCHANGED <<engine_vars, twin, records>>

\* the end of a pass with a sleep after the last attempt as well
NextAttempt_WaitLast ==
    /\ waits' = Append(waits, attempt)
    /\ IF attempt < MAX_RETRIES THEN apc' = "try" /\ attempt' = attempt + 1
       ELSE apc' = "fallback" /\ attempt' = attempt

\* the end of one pass of the loop that has not returned:
\* if attempt < self.MAX_RETRIES: time.sleep(...), then the next pass or the
\* end of the loop
NextAttempt ==
    IF attempt < MAX_RETRIES
    THEN apc' = "try" /\ attempt' = attempt + 1 /\ waits' = Append(waits, attempt)
    ELSE apc' = "fallback" /\ attempt' = attempt /\ waits' = waits

\* the handler of json.JSONDecodeError of the LM Studio module names `raw`
\* in its log line: UnboundLocalError while `raw` was never assigned
DecodeErrorHandler(raw_) ==
    IF analyzer = LMSTUDIO /\ raw_ = Unbound
    THEN /\ apc' = "done" /\ attempt' = attempt /\ waits' = waits
         /\ answer' = Raises("UnboundLocalError")
    ELSE NextAttempt /\ answer' = answer

\* one pass of the loop of _call_with_retry, for one outcome of the model call
Attempt ==
    /\ apc = "try"
    /\ \E o \in Outcomes(analyzer) :
         /\ outcomes' = Append(outcomes, o)
         /\ IF o.kind = "raise"
            THEN /\ raw' = raw
                 /\ IF o.error = "JSONDecodeError" THEN DecodeErrorHandler(raw)
                    ELSE IF analyzer = LMSTUDIO
                            /\ o.error \in {"APIConnectionError", "APITimeoutError"}
                    THEN /\ apc' = "fallback" /\ attempt' = attempt /\ waits' = waits
                         /\ answer' = answer
                    ELSE NextAttempt /\ answer' = answer
            ELSE /\ raw' = o.text
                 /\ IF ParseFails(analyzer, o.text) THEN DecodeErrorHandler(o.text)
                    ELSE \E validated \in {_validate_and_fix(analyzer, o.text.json,
                                                              Strip(client_message))} :
                           IF validated.raises # "" THEN NextAttempt /\ answer' = answer
                           ELSE /\ apc' = "done"
                                /\ attempt' = attempt
                                /\ waits' = waits
                                /\ answer' = Returns(validated.data)
    /\ UNCHANGED <<analyzer, _client, client_message>>
    /\ UNCHANGED <<engine_vars, twin, records>>

\* the loop is left without a return: return _fallback_analysis(message)
UseFallback ==
    /\ apc = "fallback"
    /\ apc' = "done"
    /\ answer' = Returns(_fallback_analysis(analyzer, Strip(client_message)))
    /\ UNCHANGED <<analyzer, _client, client_message, attempt, raw, outcomes, waits>>
    /\ UNCHANGED <<engine_vars, twin, records>>

NextAnalyzer == Analyze \/ Attempt \/ UseFallback

SpecAnalyzer == InitAnalyzer /\ [][NextAnalyzer]_vars

\* ------------------------------------------------------ vocabulary

\* the rows of a result table that name a manager
IsAssigned(res) == res.manager # UNASSIGNED

\* the manager row a result names (manager names are unique in a table)
RowNamed(name) == CHOOSE r \in Rows(managers) : managers[r].name = name

\* the load a manager row was ingested with
InitialLoad(r) == ToLoad(managers_df[r].load)

RECURSIVE Flatten(_)
Flatten(tables) == IF tables = <<>> THEN <<>> ELSE Head(tables) \o Flatten(Tail(tables))

\* every result row the engine has produced so far, over all its calls
Produced == Flatten(returned) \o (IF pc = "loop" THEN results ELSE <<>>)

CountFor(rows, name) == Cardinality({k \in 1..Len(rows) : rows[k].manager = name})

\* the segment bucket of the k-th ticket
BucketOf(k) == SegmentOf(Upper(Str(tickets[k].segment)))

\* a manager row passes the rules of 4.2 for an office and a classification
PassesRules(r, office, bucket, type, lang) ==
    /\ managers[r].office = office
    /\ bucket \in {SEG_VIP, SEG_PRIORITY} => S_VIP \in managers[r].skills_set
    /\ type = T_DATACHANGE =>
         Contains(S_GLAV, managers[r].pos_norm) /\ Contains(S_SPEC, managers[r].pos_norm)
    /\ lang = LANG_KZ => S_KZ \in managers[r].skills_set
    /\ lang = LANG_ENG => S_ENG \in managers[r].skills_set

\* the managers with the VIP skill in one of the two capital offices
CapitalVIP ==
    {r \in Rows(managers) :
        managers[r].office \in {astana_office, almaty_office}
        /\ S_VIP \in managers[r].skills_set}

\* the k-th iteration of the call in progress found no manager passing the rules
PipelineEmpty(k) ==
    ~ \E r \in Rows(managers) :
        PassesRules(r, steps[k].resolved, BucketOf(k), results[k].ai_type, results[k].ai_lang)

\* -------------------------------------------------------------- claims

C2_LoadAccounting ==
    /\ \A r \in Rows(managers) :
         managers[r].load = InitialLoad(r) + CountFor(Produced, managers[r].name)
    /\ pc = "loop" =>
         \A k \in 1..Len(steps) : \A r \in Rows(managers) :
            steps[k].loads[r] =
                InitialLoad(r)
                + CountFor(Flatten(returned) \o SubSeq(results, 1, k - 1), managers[r].name)

C2_Witness ==
    /\ pc = "loop"
    /\ Len(steps) >= 2
    /\ \E r \in Rows(managers) : managers[r].load >= InitialLoad(r) + 2
    /\ \E k \in 1..Len(results) : ~ IsAssigned(results[k])

\* the k-th and the n-th iteration of the call in progress are consecutive
\* selections of one round-robin bucket
ConsecutiveInBucket(k, n) ==
    /\ k < n
    /\ steps[k].subset # {} /\ steps[n].subset # {}
    /\ steps[k].rr_key = steps[n].rr_key
    /\ \A c \in (k + 1)..(n - 1) :
         steps[c].subset = {} \/ steps[c].rr_key # steps[k].rr_key

\* the k-th iteration had at least two candidates, all on the same load
TiedCandidates(k) ==
    /\ Cardinality(steps[k].subset) >= 2
    /\ \A p, q \in steps[k].subset : steps[k].loads[p] = steps[k].loads[q]

\* C3: for a bucket key whose candidate set holds at least two managers
\* with tied loads, no manager receives two consecutive tickets of that key
\* (stated for the first call on an engine).
C3_Alternation ==
    Len(returned) = 0 =>
        \A k, n \in 1..Len(steps) :
            ConsecutiveInBucket(k, n) /\ TiedCandidates(k)
                => steps[k].selected # steps[n].selected

\* C4: with fallback disabled, a result that names a manager and whose
\* office is not the escalation marker names a manager of the result's
\* office who passes the segment, data-change and language rules of the
\* ticket.
C4_AssignedPassesRules ==
    ~ enable_fallback =>
        \A k \in 1..Len(results) :
            IsAssigned(results[k]) /\ results[k].office # ESCALATION
                => PassesRules(RowNamed(results[k].manager), results[k].office,
                               BucketOf(k), results[k].ai_type, results[k].ai_lang)

C4_Witness ==
    /\ ~ enable_fallback
    /\ \E k \in 1..Len(results) :
         /\ IsAssigned(results[k]) /\ results[k].office # ESCALATION
         /\ BucketOf(k) = SEG_PRIORITY /\ results[k].ai_lang = LANG_ENG
         /\ \E r \in OfficePool(managers, results[k].office) :
                S_VIP \notin managers[r].skills_set
         /\ \E r \in OfficePool(managers, results[k].office) :
                S_ENG \notin managers[r].skills_set
    /\ \E k \in 1..Len(results) :
         /\ IsAssigned(results[k]) /\ results[k].office # ESCALATION
         /\ results[k].ai_type = T_DATACHANGE
         /\ \E r \in OfficePool(managers, results[k].office) :
                ~ Contains(S_GLAV, managers[r].pos_norm)

C6_EscalatedCandidates ==
    \A k \in 1..Len(results) :
        steps[k].escalated =>
            /\ (~ enable_fallback \/ CapitalVIP # {}) => steps[k].subset = CapitalVIP
            /\ CapitalVIP # {} =>
                 IsAssigned(results[k]) /\ RowNamed(results[k].manager) \in CapitalVIP
            /\ (~ enable_fallback /\ CapitalVIP = {}) =>
                 ~ IsAssigned(results[k]) /\ results[k].office = ESCALATION

C6_Witness ==
    /\ ~ enable_fallback
    /\ \E k \in 1..Len(results) :
         /\ steps[k].escalated /\ IsAssigned(results[k])
         /\ results[k].ai_lang = LANG_ENG
         /\ S_ENG \notin managers[RowNamed(results[k].manager)].skills_set
    /\ \E k \in 1..Len(results) :
         /\ steps[k].escalated /\ IsAssigned(results[k])
         /\ managers[RowNamed(results[k].manager)].office # steps[k].resolved

\* C7: with fallback enabled, a ticket of any segment whose candidates are
\* still empty after filtering and escalation gets every manager of its
\* resolved office as candidates, so it is assigned to one of them whenever
\* that office has a manager.
C7_FallbackPool ==
    enable_fallback =>
        \A k \in 1..Len(results) :
            (/\ PipelineEmpty(k)
             /\ BucketOf(k) = SEG_VIP => CapitalVIP = {}
             /\ OfficePool(managers, steps[k].resolved) # {})
                => /\ steps[k].subset = OfficePool(managers, steps[k].resolved)
                   /\ IsAssigned(results[k])

\* C8: an iteration whose final candidate set is empty records UNASSIGNED
\* with the ticket's intent, language, priority and office, and leaves every
\* load and every round-robin counter as it was.
C8_EmptyCandidatesFrame ==
    [][ (Len(steps') = Len(steps) + 1 /\ steps'[Len(steps')].subset = {}) =>
          /\ managers' = managers
          /\ rr_counters' = rr_counters
          /\ Len(results') = Len(results) + 1
          /\ results'[Len(results')] =
               [guid     |-> tickets[processed + 1].guid,
                ai_type  |-> analyze_ticket(tickets[processed + 1]).type,
                ai_lang  |-> analyze_ticket(tickets[processed + 1]).lang,
                priority |-> analyze_ticket(tickets[processed + 1]).priority,
                office   |-> IF steps'[Len(steps')].escalated
                             THEN ESCALATION ELSE steps'[Len(steps')].resolved,
                manager  |-> UNASSIGNED] ]_vars

C8_Witness ==
    \E k \in 2..Len(results) :
        /\ steps[k].subset = {}
        /\ ~ IsAssigned(results[k])
        /\ steps[k].counters # <<>>
        /\ \E r \in Rows(managers) : steps[k].loads[r] > InitialLoad(r)
        /\ k < Len(steps) => steps[k + 1].counters = steps[k].counters

\* C9: at the start of every distribute() call all bucket counters and the
\* foreign-location counter are 0 and the loads are the ingested loads, and
\* every call on one engine returns the same results.
C9_RunScopedState ==
    /\ (pc = "loop" /\ processed = 0) =>
         /\ \A key \in DOMAIN rr_counters : rr_counters[key] = 0
         /\ unknown_loc_counter = 0
         /\ \A r \in Rows(managers) : managers[r].load = InitialLoad(r)
    /\ \A c \in 1..Len(returned) : returned[c] = returned[1]

\* C10: every office get_office returns and every office written to a
\* result is the name of a unit of the business-unit table or the escalation
\* marker.
C10_OfficeIsUnit ==
    \A k \in 1..Len(results) :
        /\ steps[k].resolved \in SeqToSet(units)
        /\ results[k].office \in SeqToSet(units) \cup {ESCALATION}

\* -------------------------------------------- office resolver claims

\* the state the k-th iteration of the latest call left behind
AfterForeign(k) == IF k < Len(steps) THEN steps[k + 1].foreign ELSE unknown_loc_counter
AfterLoads(k) ==
    IF k < Len(steps) THEN steps[k + 1].loads
    ELSE Tup([r \in Rows(managers) |-> managers[r].load])
AfterCounters(k) == IF k < Len(steps) THEN steps[k + 1].counters ELSE rr_counters

\* the calls that finished before the call `steps` belongs to
CallsBefore == IF pc = "loop" THEN Len(returned) ELSE Len(returned) - 1

CityOf(k) == Lower(Str(tickets[k].city))

HasDomesticToken(k) ==
    \E token \in {Cyr("kazahstan"), Lat("kazakhstan"), Lat("kz")} :
        Contains(token, KeepLetters(Lower(Str(tickets[k].country))))

\* the units whose name without the word for office is contained in the
\* city of the k-th ticket or contains it
UnitsMatching(k) ==
    {u \in 1..Len(units) :
        \/ Contains(OfficeRoot(units[u]), CityOf(k))
        \/ Contains(CityOf(k), OfficeRoot(units[u]))}

\* the same, leaving out the units of which nothing but that word remains
UnitsMatchingByName(k) == {u \in UnitsMatching(k) : OfficeRoot(units[u]) # <<>>}

FirstOf(S) == CHOOSE u \in S : \A v \in S : u <= v

\* the tickets that reach the foreign branch
ForeignTickets == {k \in 1..Len(tickets) : UnitsMatchingByName(k) = {} /\ ~ HasDomesticToken(k)}

\* how many tickets reached the foreign branch before the k-th of the latest
\* call, `foreign` being the tickets of the table that reach it
ForeignIndex(foreign, k) ==
    CallsBefore * Cardinality(foreign) + Cardinality({j \in foreign : j < k})

\* the office the country rule gives the k-th ticket
CountryRule(k) ==
    IF HasDomesticToken(k) THEN astana_office
    ELSE IF steps[k].foreign % 2 = 0 THEN astana_office ELSE almaty_office

\* C11: a ticket with an empty city is resolved by the country rule only
\* (the Astana office on a domestic token, the foreign alternation
\* otherwise), never by a city match to some unit.
C11_EmptyCityFallsThrough ==
    \A k \in 1..Len(steps) :
        tickets[k].city \in {Lat(""), NaN} => steps[k].resolved = CountryRule(k)

\* C12: the n-th ticket that reaches the foreign branch (n = 0, 1, ...) is
\* resolved to the Astana office for even n and to the Almaty office for odd
\* n; the foreign counter moves by one on such a ticket and on no other,
\* assigned or not, and an iteration changes loads and bucket counters only
\* by its selection.
C12_ForeignAlternation ==
    \A foreign \in {ForeignTickets} :
    \A k \in 1..Len(steps) :
        /\ steps[k].foreign = ForeignIndex(foreign, k)
        /\ AfterForeign(k) = steps[k].foreign + (IF k \in foreign THEN 1 ELSE 0)
        /\ k \in foreign =>
             steps[k].resolved =
                 (IF ForeignIndex(foreign, k) % 2 = 0 THEN astana_office ELSE almaty_office)
        /\ steps[k].subset = {} =>
             AfterLoads(k) = steps[k].loads /\ AfterCounters(k) = steps[k].counters
        /\ steps[k].subset # {} =>
             /\ \A r \in Rows(managers) :
                  AfterLoads(k)[r] =
                      steps[k].loads[r] + (IF r = steps[k].selected THEN 1 ELSE 0)
             /\ \A key \in DOMAIN AfterCounters(k) :
                  AfterCounters(k)[key] =
                      RRGet(steps[k].counters, key) + (IF key = steps[k].rr_key THEN 1 ELSE 0)

C12_Witness ==
    /\ Len(steps) >= 3
    /\ Len(returned) >= 1
    /\ \E a, b \in ForeignTickets :
         /\ a < b /\ b <= Len(steps)
         /\ steps[a].resolved # steps[b].resolved
         /\ IsAssigned(results[a]) # IsAssigned(results[b])
         /\ steps[a].foreign >= 2
    /\ \E k \in 1..Len(steps) : k \notin ForeignTickets /\ IsAssigned(results[k])

\* C13: a ticket whose city matches no unit and whose normalized country
\* holds a domestic token is resolved to the canonical Astana office, and
\* the foreign counter stays as it was.
C13_DomesticDefault ==
    \A k \in 1..Len(steps) :
        (UnitsMatchingByName(k) = {} /\ HasDomesticToken(k)) =>
            /\ steps[k].resolved = astana_office
            /\ AfterForeign(k) = steps[k].foreign

C13_Witness ==
    \E k \in 1..Len(steps) :
        /\ UnitsMatchingByName(k) = {} /\ HasDomesticToken(k)
        /\ tickets[k].country = Lat("K.Z.")
        /\ steps[k].foreign % 2 = 1
        /\ astana_office # almaty_office

\* C14 as stated: when units match the city (the name without the word for
\* office is contained in the city, or the city in it), get_office returns
\* the first of them in table order.
C14_FirstMatchAsStated ==
    \A k \in 1..Len(steps) :
        UnitsMatching(k) # {} => steps[k].resolved = units[FirstOf(UnitsMatching(k))]

\* C14 as amended: among the units of which more than the word for office
\* remains, the first one in table order that matches the city is returned,
\* whatever the country and the foreign counter.
C14_FirstMatchWins ==
    \A k \in 1..Len(steps) :
        UnitsMatchingByName(k) # {} =>
            /\ steps[k].resolved = units[FirstOf(UnitsMatchingByName(k))]
            /\ AfterForeign(k) = steps[k].foreign

C14_Witness ==
    /\ \E k \in 1..Len(steps) :
         /\ Cardinality(UnitsMatchingByName(k)) >= 2
         /\ ~ HasDomesticToken(k)
         /\ steps[k].foreign >= 1
         /\ Contains(CityOf(k), OfficeRoot(steps[k].resolved))
         /\ OfficeRoot(steps[k].resolved) # CityOf(k)
    /\ \E k \in 1..Len(steps) :
         Cardinality(UnitsMatchingByName(k)) >= 2 /\ HasDomesticToken(k)

\* ------------------------------------------------- selection claims

\* q comes before r in the order (load ascending, name ascending) of the
\* loads the k-th iteration of the latest call found
ComesBefore(k, q, r) ==
    \/ steps[k].loads[q] < steps[k].loads[r]
    \/ /\ steps[k].loads[q] = steps[k].loads[r]
       /\ StrLess(managers[q].name, managers[r].name)

PlaceOf(k, r) == Cardinality({q \in steps[k].subset : ComesBefore(k, q, r)})

\* C15: with candidates, the selected manager is the one at place
\* c mod min(2, number of candidates) of the order (load, name), c being the
\* bucket counter before the ticket (0 if absent); so nobody with two or more
\* candidates before them is selected and a sole candidate always is.
C15_SelectionRule ==
    \A k \in 1..Len(steps) :
        steps[k].subset # {} =>
            /\ steps[k].selected \in steps[k].subset
            /\ results[k].manager = managers[steps[k].selected].name
            /\ steps[k].rr_idx = RRGet(steps[k].counters, steps[k].rr_key)
            /\ PlaceOf(k, steps[k].selected) =
                 steps[k].rr_idx % Min(2, Cardinality(steps[k].subset))

C15_Witness ==
    /\ \E k \in 1..Len(steps) :
         /\ Cardinality(steps[k].subset) >= 3
         /\ steps[k].rr_idx >= 2
         /\ \E q, r \in steps[k].subset :
              q # r /\ q # steps[k].selected /\ r # steps[k].selected
              /\ steps[k].loads[q] = steps[k].loads[steps[k].selected]
    /\ \E k \in 1..Len(steps) :
         /\ Cardinality(steps[k].subset) >= 3
         /\ PlaceOf(k, steps[k].selected) = 1
    /\ \E k \in 1..Len(steps) :
         Cardinality(steps[k].subset) = 1 /\ steps[k].rr_idx % 2 = 1

\* the bucket key a result row of the k-th ticket was selected under
KeyOfRow(row, k) == <<row.office, BucketOf(k), row.ai_type, row.ai_lang>>

\* the assigned results produced so far, as <<call, ticket, row>>
AssignedSoFar ==
    {<<c, k, returned[c][k]>> : c \in 1..Len(returned), k \in 1..Len(tickets)}
        \cup (IF pc = "loop"
              THEN {<<Len(returned) + 1, k, results[k]>> : k \in 1..Len(results)}
              ELSE {})

AssignedUnder(key) ==
    Cardinality({a \in AssignedSoFar : IsAssigned(a[3]) /\ KeyOfRow(a[3], a[2]) = key})

RECURSIVE SumOver(_, _)
SumOver(f, S) ==
    IF S = {} THEN 0
    ELSE LET x == CHOOSE y \in S : TRUE IN f[x] + SumOver(f, S \ {x})

\* C16: the counter of every bucket key is the number of tickets assigned
\* under that key so far, the key holding the effective office; the counters
\* add up to the number of assigned results and to the total increase of the
\* loads, and an iteration moves one counter by one when it selects and none
\* otherwise.
C16_CountersCountAssignments ==
    /\ \A key \in (DOMAIN rr_counters) \cup {KeyOfRow(a[3], a[2]) : a \in AssignedSoFar} :
         RRGet(rr_counters, key) = AssignedUnder(key)
    /\ SumOver(rr_counters, DOMAIN rr_counters)
         = Cardinality({a \in AssignedSoFar : IsAssigned(a[3])})
    /\ SumOver(rr_counters, DOMAIN rr_counters)
         = SumOver([r \in Rows(managers) |-> managers[r].load - InitialLoad(r)], Rows(managers))
    /\ \A k \in 1..Len(steps) :
         \A key \in (DOMAIN AfterCounters(k)) \cup {steps[k].rr_key} :
            RRGet(AfterCounters(k), key) =
                RRGet(steps[k].counters, key)
                + (IF steps[k].subset # {} /\ key = steps[k].rr_key THEN 1 ELSE 0)

C16_Witness ==
    /\ pc = "loop"
    /\ Cardinality(DOMAIN rr_counters) >= 2
    /\ \E key \in DOMAIN rr_counters : key[1] = ESCALATION /\ rr_counters[key] >= 2
    /\ \E k \in 1..Len(results) : ~ IsAssigned(results[k])

\* -------------------------------------------------- pipeline claims

\* the candidates of the k-th iteration after the office match (n = 0), the
\* segment gate (1), the data-change gate (2) and the language gate (3)
StageSet(k, n) ==
    IF n = 0 THEN OfficePool(managers, steps[k].resolved)
    ELSE IF n = 1 THEN SegmentGate(managers, OfficePool(managers, steps[k].resolved),
                                   steps[k].ai)
    ELSE IF n = 2
    THEN DataChangeGate(managers,
             SegmentGate(managers, OfficePool(managers, steps[k].resolved), steps[k].ai),
             steps[k].ai)
    ELSE LanguageGate(managers,
             DataChangeGate(managers,
                 SegmentGate(managers, OfficePool(managers, steps[k].resolved), steps[k].ai),
                 steps[k].ai),
             steps[k].ai)

OfficeGateSet(k) == {r \in Rows(managers) : managers[r].office = steps[k].resolved}
SegmentGateSet(k) ==
    {r \in Rows(managers) :
        BucketOf(k) \in {SEG_VIP, SEG_PRIORITY} => S_VIP \in managers[r].skills_set}
DataChangeGateSet(k) ==
    {r \in Rows(managers) :
        results[k].ai_type = T_DATACHANGE =>
            Contains(S_GLAV, managers[r].pos_norm) /\ Contains(S_SPEC, managers[r].pos_norm)}
LanguageGateSet(k) ==
    {r \in Rows(managers) :
        /\ results[k].ai_lang = LANG_KZ => S_KZ \in managers[r].skills_set
        /\ results[k].ai_lang = LANG_ENG => S_ENG \in managers[r].skills_set}

SchemaBroken ==
    \/ MissingColumns(columns.tickets, RequiredTickets) # {}
    \/ MissingColumns(columns.managers, RequiredManagers) # {}
    \/ MissingColumns(columns.units, RequiredUnits) # {}

\* C19: when a required column is missing from a table after alias
\* resolution, construction fails and nothing ever follows: no ticket is
\* processed, no result produced, no load changed, no counter created.
C19_SchemaErrorIsFatal ==
    SchemaBroken =>
        /\ pc = "failed"
        /\ processed = 0 /\ steps = <<>> /\ results = <<>> /\ returned = <<>>
        /\ managers = <<>>
        /\ rr_counters = <<>> /\ unknown_loc_counter = 0

C19_Witness ==
    /\ pc = "failed"
    /\ MissingColumns(columns.tickets, RequiredTickets) = {}
    /\ columns.tickets # CanonicalColumns.tickets
    /\ MissingColumns(columns.managers, RequiredManagers) = {Lat("load")}
    /\ MissingColumns(columns.units, RequiredUnits) = {}

\* the rows of the managers table whose load is missing or is no number
MalformedLoadRows == {r \in 1..Len(managers_df) : managers_df[r].load[1] \in {"text", "nan"}}

\* C20: a manager row whose load is missing or does not parse as a number
\* is ingested with load 0 and stays in the pool at its place: its load is
\* the number of tickets it was given, and it is a candidate of every ticket
\* whose rules it passes.
C20_MalformedLoadIsZero ==
    pc # "failed" =>
        /\ Len(managers) = Len(managers_df)
        /\ \A r \in MalformedLoadRows :
             /\ managers[r].name = Strip(Str(managers_df[r].name))
             /\ managers[r].load = CountFor(Produced, managers[r].name)
             /\ \A k \in 1..Len(steps) :
                  /\ steps[k].loads[r] <= managers[r].load
                  /\ PassesRules(r, steps[k].resolved, BucketOf(k), results[k].ai_type,
                                 results[k].ai_lang) => r \in steps[k].pipe

C20_Witness ==
    /\ \E r \in MalformedLoadRows :
         /\ managers_df[r].load = <<"text">>
         /\ \E k \in 1..Len(steps) :
              /\ steps[k].loads[r] = 0
              /\ steps[k].selected = r
              /\ Cardinality(steps[k].subset) >= 1
         /\ managers[r].load >= 1
    /\ pc = "loop"

\* --------------------------------------------------- classifier claims

\* an outcome of the model call that _call_with_retry turns into its return value
Usable(o) ==
    /\ o.kind = "text"
    /\ ~ ParseFails(analyzer, o.text)
    /\ _validate_and_fix(analyzer, o.text.json, Strip(client_message)).raises = ""

SixFields == {"intent", "sentiment", "suggested_priority", "language", "summary",
              "recommendation"}

\* C21: for every sequence of outcomes of the model call, analyze() of
\* either class ends by returning a record, never by raising; and when no
\* attempt gave a usable response the record is the one _fallback_analysis
\* computes for the message.
C21_FailureAbsorbed ==
    apc = "done" =>
        /\ answer.kind = "return"
        /\ (outcomes # <<>> /\ \A k \in 1..Len(outcomes) : ~ Usable(outcomes[k])) =>
             answer.record = _fallback_analysis(analyzer, Strip(client_message))

\* C22: every record analyze() returns for a non-empty message holds the six
\* fields, with the intent among the seven intents, the sentiment among the
\* three sentiments, the priority an integer in 1..10 and the language among
\* RU, KZ, ENG, whatever the model response held.
C22_RecordConformant ==
    (answer.kind = "return" /\ Strip(client_message) # <<>>) =>
        /\ \A f \in SixFields : answer.record[f] # Missing
        /\ answer.record.intent \in VALID_INTENTS
        /\ answer.record.sentiment \in VALID_SENTIMENTS
        /\ answer.record.suggested_priority[1] = "int"
        /\ answer.record.suggested_priority[2] \in 1..10
        /\ answer.record.language \in VALID_LANGUAGES

C22_Witness ==
    /\ answer.kind = "return"
    /\ Len(outcomes) >= 2
    /\ ~ Usable(outcomes[1])
    /\ outcomes[Len(outcomes)].kind = "text"
    /\ outcomes[Len(outcomes)].text.json.fields.suggested_priority = PyInt(77)
    /\ answer.record.suggested_priority = PyInt(10)
    /\ answer.record.intent = PyStr(T_SPAM)

\* ------------------------------------------------------- frame claims

\* a manager row without its load
WithoutLoad(m) == [m EXCEPT !.load = 0]

\* C23: processing a ticket changes the load of at most one manager, by
\* exactly +1, and no other field of any manager, no ticket and no unit; so
\* no load ever decreases.
C23_OnlyOneLoadMoves ==
    [][ /\ tickets' = tickets
        /\ units' = units
        /\ astana_office' = astana_office /\ almaty_office' = almaty_office
        /\ Len(managers') = Len(managers)
        /\ \A r \in Rows(managers) :
             /\ WithoutLoad(managers'[r]) = WithoutLoad(managers[r])
             /\ managers'[r].load \in {managers[r].load, managers[r].load + 1}
        /\ Cardinality({r \in Rows(managers) : managers'[r].load # managers[r].load}) <= 1
        /\ (\E r \in Rows(managers) : managers'[r].load # managers[r].load)
             => (pc = "loop" /\ processed' = processed + 1 /\ IsAssigned(results'[processed']))
      ]_vars

C23_Witness ==
    /\ pc = "loop"
    /\ \E r \in Rows(managers) : managers[r].load = InitialLoad(r) + 2
    /\ \E r \in Rows(managers) :
         /\ managers[r].load = InitialLoad(r)
         /\ \E k \in 1..Len(steps) : r \in steps[k].subset
    /\ \E k \in 1..Len(results) : ~ IsAssigned(results[k])
    /\ \A r \in Rows(managers) :
         WithoutLoad(managers[r]) = WithoutLoad(IngestManager(managers_df[r]))

\* a MASS ticket in Russian whose intent is not a change of data
PlainTicket(k) ==
    /\ steps[k].ai.segment = SEG_MASS
    /\ steps[k].ai.lang = LANG_RU
    /\ steps[k].ai.type # T_DATACHANGE

\* C24: a MASS ticket in Russian whose intent is not a change of data passes
\* every gate unfiltered (the candidates after the gates are the whole pool of
\* its resolved office); when that office has a manager the ticket is
\* assigned, to a manager of that office, whose load rises by one.
C24_PlainTicketAssigned ==
    \A k \in 1..Len(steps) :
        PlainTicket(k) =>
            /\ steps[k].pipe = OfficePool(managers, steps[k].resolved)
            /\ ~ steps[k].escalated
            /\ steps[k].pipe # {} =>
                  /\ IsAssigned(results[k])
                  /\ steps[k].selected \in steps[k].pipe
                  /\ results[k].manager = managers[steps[k].selected].name
                  /\ AfterLoads(k)[steps[k].selected] = steps[k].loads[steps[k].selected] + 1

\* a plain ticket went to a manager whose skill set is empty, chosen from an
\* office pool of two or more
C24_Witness ==
    \E k \in 1..Len(steps) :
        /\ PlainTicket(k)
        /\ IsAssigned(results[k])
        /\ Cardinality(steps[k].pipe) >= 2
        /\ managers[steps[k].selected].skills_set = {}

\* ------------------------------------------------------ ingestion claims

\* a skills cell that is missing or blank
BlankCell(cell) == cell = NaN \/ Strip(cell) = <<>>

\* non-empty, trimmed, upper-case
CleanToken(t) == t # <<>> /\ Strip(t) = t /\ Upper(t) = t

NoDuplicates(list) == \A i, j \in 1..Len(list) : list[i] = list[j] => i = j

\* the skill set the engine keeps for each manager
EngineSkillsClean ==
    \A r \in Rows(managers) :
        /\ \A t \in managers[r].skills_set : CleanToken(t)
        /\ BlankCell(managers_df[r].skills) => managers[r].skills_set = {}

\* C25: for every raw skills cell the parsed skills hold only non-empty,
\* trimmed, upper-case tokens without duplicates, and a missing or blank cell
\* gives none: in the engine's skill set and in the loader's skills list.
C25_SkillTokens ==
    /\ EngineSkillsClean
    /\ \A r \in 1..Len(records) :
          /\ \A k \in 1..Len(records[r].skills) : CleanToken(records[r].skills[k])
          /\ NoDuplicates(records[r].skills)
          /\ BlankCell(managers_df[r].skills) => records[r].skills = <<>>

\* C26: every manager's load is a non-negative integer, after ingestion and
\* in every later state, whatever the raw load cell was.
C26_LoadsNonNegative ==
    \A r \in Rows(managers) : managers[r].load \in Nat

\* ------------------------------------------------------ spreading claims

\* the iterations of the call in progress that assigned a ticket
Assigning == {k \in 1..Len(steps) : steps[k].subset # {}}

\* every assignment of the call in progress fell in one bucket key whose
\* candidates were the managers a and b, who started the call with equal loads
OneTiedPair(a, b) ==
    /\ a # b
    /\ Assigning # {}
    /\ \A k \in Assigning : steps[k].subset = {a, b}
    /\ \A k, n \in Assigning : steps[k].rr_key = steps[n].rr_key
    /\ steps[1].loads[a] = steps[1].loads[b]

LoadGap(k, a, b) ==
    IF AfterLoads(k)[a] >= AfterLoads(k)[b]
    THEN AfterLoads(k)[a] - AfterLoads(k)[b]
    ELSE AfterLoads(k)[b] - AfterLoads(k)[a]

\* C27: when the assigned tickets of a call all fall in one bucket key whose
\* candidates are exactly two managers with equal loads at the start, the two
\* loads never differ by more than 2 during the call.
C27_SpreadingBound ==
    \A a, b \in Rows(managers) :
        OneTiedPair(a, b) => \A k \in 1..Len(steps) : LoadGap(k, a, b) <= 2

\* such a call where the gap reached 2 and then closed to 1: both managers won
C27_Witness ==
    \E a, b \in Rows(managers) :
        /\ OneTiedPair(a, b)
        /\ Cardinality(Assigning) >= 3
        /\ \E k, n \in Assigning : k < n /\ LoadGap(k, a, b) = 2 /\ LoadGap(n, a, b) = 1

\* ---------------------------------------------------- determinism claims

\* the second engine has made as many calls as the first, which is idle
TwinAbreast == twin # <<>> /\ pc = "ready" /\ Len(twin.returned) = Len(returned)

EscalatedAlike(k, n) ==
    /\ steps[k].escalated /\ steps[n].escalated
    /\ steps[k].ai.type = steps[n].ai.type
    /\ steps[k].ai.lang = steps[n].ai.lang

UpTo(n) == Tup([k \in 1..n |-> k])

\* the model calls made so far that gave no validated record
AllFailed == \A k \in 1..Len(outcomes) : ~ Usable(outcomes[k])

\* C31: the Gemini class makes at most MAX_RETRIES model calls for a message
\* and none after a call that gave a validated record; it sleeps once after
\* each failed attempt but the last possible one, so the sleeps are those after
\* attempts 1..n-1 when n calls were made (1..n while the next call is still
\* to come); the fallback record is returned by _call_with_retry only when
\* MAX_RETRIES calls were made and all failed, and a validated record is
\* returned as soon as a call gives one.
C31_GeminiRetries ==
    analyzer = GEMINI =>
        /\ Len(outcomes) <= MAX_RETRIES
        /\ \A k \in 1..(Len(outcomes) - 1) : ~ Usable(outcomes[k])
        /\ apc = "try" => waits = UpTo(Len(outcomes)) /\ attempt = Len(outcomes) + 1 /\ AllFailed
        /\ (apc \in {"fallback", "done"} /\ outcomes # <<>>) => waits = UpTo(Len(outcomes) - 1)
        /\ outcomes = <<>> => waits = <<>>
        /\ apc = "fallback" => Len(outcomes) = MAX_RETRIES /\ AllFailed
        /\ (apc = "done" /\ outcomes # <<>>) =>
             IF Usable(outcomes[Len(outcomes)])
             THEN answer = Returns(_validate_and_fix(GEMINI, outcomes[Len(outcomes)].text.json,
                                                     Strip(client_message)).data)
             ELSE /\ Len(outcomes) = MAX_RETRIES
                  /\ answer = Returns(_fallback_analysis(GEMINI, Strip(client_message)))

\* three calls failed, with a sleep after the first and the second only, and
\* the fallback record was returned
C31_Witness ==
    /\ analyzer = GEMINI
    /\ apc = "done"
    /\ Len(outcomes) = MAX_RETRIES
    /\ AllFailed
    /\ waits = <<1, 2>>
    /\ answer = Returns(_fallback_analysis(GEMINI, Strip(client_message)))

\* a call that raised a connection or a timeout error
ConnectionLost(o) ==
    o.kind = "raise" /\ o.error \in {"APIConnectionError", "APITimeoutError"}

\* C32: in the LM Studio class a connection or timeout error ends the loop at
\* once (it is the last call, no sleep follows it, the fallback record is
\* returned), and every other failed attempt before the third is followed by
\* another attempt, up to MAX_RETRIES calls in all.
C32_LocalRetries ==
    analyzer = LMSTUDIO =>
        /\ Len(outcomes) <= MAX_RETRIES
        /\ \A k \in 1..Len(outcomes) :
             /\ ConnectionLost(outcomes[k]) =>
                  /\ k = Len(outcomes)
                  /\ apc \in {"fallback", "done"}
                  /\ waits = UpTo(k - 1)
                  /\ apc = "done" =>
                       answer = Returns(_fallback_analysis(LMSTUDIO, Strip(client_message)))
             /\ ( /\ ~ ConnectionLost(outcomes[k])
                  /\ ~ Usable(outcomes[k])
                  /\ k = Len(outcomes)
                  /\ k < MAX_RETRIES )
                => apc = "try" /\ attempt = k + 1 /\ waits = UpTo(k)

\* ------------------------------------------------------ language claims

\* the lower-cased description of the k-th ticket; a missing cell is an empty
\* description
Description(k) ==
    IF tickets[k].description = NaN THEN <<>> ELSE Lower(tickets[k].description)

\* one of the letters the Kazakh alphabet adds to the Russian one
KazakhSpecific(c) ==
    c[1] = "ext" /\ c[2] \in {"a", "g", "q", "n", "o", "u", "y", "h", "i"}

LatinLetter(c) == c[1] = "lat" /\ c[3] \in {"l", "u"}

\* the language the stated precedence gives a text
StatedLanguage(text) ==
    IF \E i \in 1..Len(text) : KazakhSpecific(text[i]) THEN LANG_KZ
    ELSE IF \E i \in 1..(Len(text) - 2) : \A j \in i..(i + 2) : LatinLetter(text[j])
    THEN LANG_ENG
    ELSE LANG_RU

\* C33: the language of a ticket is KZ when its lower-cased description holds
\* a Kazakh-specific letter, else ENG when it holds three Latin letters in a
\* row, else RU; the language gate keeps the managers with that skill for KZ
\* and ENG and is skipped for RU, which is the case of an empty or missing
\* description.
C33_LanguagePrecedence ==
    \A k \in 1..Len(steps) :
        /\ steps[k].ai.lang = StatedLanguage(Description(k))
        /\ results[k].ai_lang = steps[k].ai.lang
        /\ steps[k].pipe =
             {r \in DataChangeGate(managers,
                       SegmentGate(managers, OfficePool(managers, steps[k].resolved),
                                   steps[k].ai), steps[k].ai) :
                 /\ StatedLanguage(Description(k)) = LANG_KZ => S_KZ \in managers[r].skills_set
                 /\ StatedLanguage(Description(k)) = LANG_ENG => S_ENG \in managers[r].skills_set}
        /\ Description(k) = <<>> => steps[k].ai.lang = LANG_RU

\* -------------------------------------------------------- intent claims

\* the categories in their declared order
DeclaredOrder == <<T_FRAUD, T_APPFAIL, T_CLAIM, T_DATACHANGE, T_COMPLAINT, T_SPAM>>

\* the k-th ticket's description holds a keyword of the c-th category
Mentions(k, c) == \E w \in keywords[c][2] : Contains(w, Description(k))

\* the c-th category is the first one the k-th description mentions
FirstMention(k, c) == Mentions(k, c) /\ \A b \in 1..(c - 1) : ~ Mentions(k, b)

\* C34: the intent is the first category, in the order fraud, application
\* failure, claim, data change, complaint, spam, with a keyword inside the
\* lower-cased description, and consultation when there is none; the position
\* filter for a change of data is applied exactly when data change is that
\* first category.
C34_FirstCategoryWins ==
    /\ \A c \in 1..Len(keywords) : keywords[c][1] = DeclaredOrder[c]
    /\ Len(keywords) = Len(DeclaredOrder)
    /\ \A k \in 1..Len(steps) :
         /\ \A c \in 1..Len(keywords) : FirstMention(k, c) => steps[k].ai.type = DeclaredOrder[c]
         /\ (\A c \in 1..Len(keywords) : ~ Mentions(k, c)) => steps[k].ai.type = T_CONSULT
         /\ results[k].ai_type = steps[k].ai.type
         /\ steps[k].pipe =
              LanguageGate(managers,
                  {r \in SegmentGate(managers, OfficePool(managers, steps[k].resolved),
                                     steps[k].ai) :
                      FirstMention(k, 4) =>
                          /\ Contains(S_GLAV, managers[r].pos_norm)
                          /\ Contains(S_SPEC, managers[r].pos_norm)},
                  steps[k].ai)

\* a description naming a change of data before an application failure was
\* classified as the failure and kept the plain specialist, and a description
\* naming a change of data first lost him to the position filter
C34_Witness ==
    \E k, n \in 1..Len(steps) :
        /\ Mentions(k, 2) /\ Mentions(k, 4)
        /\ steps[k].ai.type = T_APPFAIL
        /\ Cardinality(steps[k].pipe) = 2
        /\ FirstMention(n, 4) /\ Mentions(n, 5)
        /\ steps[n].ai.type = T_DATACHANGE
        /\ steps[n].ai.segment = SEG_PRIORITY

\* ------------------------------------------------------ priority claims

\* the upper-cased raw segment of the k-th ticket; a missing cell is an empty
\* segment
RawSegment(k) == IF tickets[k].segment = NaN THEN <<>> ELSE Upper(tickets[k].segment)

\* the managers table as the k-th iteration found it
ManagersAt(k) ==
    Tup([r \in Rows(managers) |-> [managers[r] EXCEPT !.load = steps[k].loads[r]]])

\* the k-th iteration decides the same with any other priority in the
\* classification
PriorityIgnored(k) ==
    \A p \in 1..10 :
      \A ai \in {[steps[k].ai EXCEPT !.priority = p]} :
      \A mgrs \in {ManagersAt(k)} :
        /\ FilterPipeline(mgrs, steps[k].resolved, ai) = steps[k].pipe
        /\ ShouldEscalate(ai, steps[k].pipe) = steps[k].escalated
        /\ FallbackSubset(mgrs,
               IF steps[k].escalated THEN CapitalSubset(mgrs, astana_office, almaty_office)
                                     ELSE steps[k].pipe,
               results[k].office, enable_fallback) = steps[k].subset
        /\ steps[k].rr_key = <<results[k].office, ai.segment, ai.type, ai.lang>>
        /\ steps[k].subset # {} =>
             Select(mgrs, steps[k].subset, steps[k].rr_idx) = steps[k].selected

\* C35: the bucket is VIP when the upper-cased raw segment contains VIP, else
\* PRIORITY when it contains PRIORITY, else MASS (also for a missing or empty
\* segment); the priority is one of 3, 7, 8, 9, 10, is 10 for a VIP ticket and
\* at least 8 for a PRIORITY ticket, is reported as computed, and changes
\* neither the candidates, the escalation, the bucket key nor the selection.
C35_SegmentAndPriority ==
    \A k \in 1..Len(steps) :
        /\ steps[k].ai.segment =
             IF Contains(S_VIP, RawSegment(k)) THEN SEG_VIP
             ELSE IF Contains(S_PRIORITY, RawSegment(k)) THEN SEG_PRIORITY
             ELSE SEG_MASS
        /\ RawSegment(k) = <<>> => steps[k].ai.segment = SEG_MASS
        /\ steps[k].ai.priority \in {3, 7, 8, 9, 10}
        /\ steps[k].ai.segment = SEG_VIP => steps[k].ai.priority = 10
        /\ steps[k].ai.segment = SEG_PRIORITY => steps[k].ai.priority >= 8
        /\ results[k].priority = steps[k].ai.priority
        /\ PriorityIgnored(k)

\* a ticket without a segment was MASS with priority 3 and went to a manager;
\* a ticket naming both premium buckets was VIP with priority 10; a MASS
\* ticket about fraud had priority 9 and kept the office's whole pool
C35_Witness ==
    /\ \E k \in 1..Len(steps) :
         /\ tickets[k].segment = NaN
         /\ steps[k].ai.segment = SEG_MASS /\ steps[k].ai.priority = 3
         /\ IsAssigned(results[k])
    /\ \E k \in 1..Len(steps) :
         /\ Contains(S_PRIORITY, RawSegment(k))
         /\ steps[k].ai.segment = SEG_VIP /\ steps[k].ai.priority = 10

====
